---- MODULE Spec2Model ----
(***************************************************************************)
(* A model of smser, an SMS gateway in front of a Huawei E3372 modem.      *)
(*                                                                         *)
(* Spec      : the rate limiter of src/src/metrics.rs (RateLimiter), used  *)
(*             by concurrent request handlers, with a clock.               *)
(*                                                                         *)
(* Time is counted in seconds.  Instant::now() is the variable now.        *)
(* Option<&str> is modelled as a sequence: None is <<>>, Some(n) is <<n>>. *)
(* Result<(), String> is a record: Ok is [ok |-> TRUE], Err(msg) is        *)
(* [ok |-> FALSE, err |-> msg], and a message built by format! is the      *)
(* record of its format string and its arguments.                          *)
(***************************************************************************)
EXTENDS Integers, Sequences, FiniteSets, TLC

(***************************************************************************)
(* Bounds of the model.                                                    *)
(***************************************************************************)
NumThreads == 2
MaxCalls == 3
MaxTicks == 2
MaxLimit == 2
ServerMaxTicks == 1
\* The width of a counter in bits: the u32 of the source, scaled down.
CounterBits == 2

(***************************************************************************)
(* Program constants.                                                      *)
(***************************************************************************)
\* The values of a counter: 0..U32Max.
U32Modulus == 2^CounterBits
U32Max == U32Modulus - 1

HourSecs == 3600
DaySecs == 86400

Threads == 1..NumThreads
NoThread == 0

None == <<>>
Some(n) == <<n>>

\* The caller names of the unit tests: one with a configured limit, one without.
ConfiguredNames == {"test_client"}
ClientNames == ConfiguredNames \cup {"unknown_client"}
ClientArgs == {None} \cup {Some(n) : n \in ClientNames}

\* The steps by which the clock may advance between two reads of it: half an
\* hour, and half an hour less than a day (so that both window lengths are
\* reached exactly, and a day can end less than an hour after an hourly roll).
TickSteps == {HourSecs \div 2, DaySecs - (HourSecs \div 2)}

VARIABLES
    hourly_limit,   \* RateLimiter.hourly_limit
    daily_limit,    \* RateLimiter.daily_limit
    client_limits,  \* RateLimiter.client_limits: name -> <<hourly, daily>>
    state,          \* RateLimiter.state: the RateLimitState behind the mutex
    mutex,          \* the thread holding the Mutex, or NoThread
    now,            \* Instant::now(), in seconds since RateLimiter::new
    ticks,          \* how many times the clock has advanced
    pc,             \* each thread's position in check_and_increment
    client,         \* each thread's argument of check_and_increment
    log,            \* the results returned so far, in order of return
    margs,          \* the arguments of the modem-client program that runs
    mpc,            \* its position
    msession,       \* the (session_id, token) it holds, or None
    mresult,        \* the device operations that returned, in order
    net,            \* the HTTP requests issued so far, in order
    mout,           \* the lines the program printed, in order
    alert_phone_number, \* AppState.alert_phone_number
    tasks,          \* the request handler each server task runs, and where
    counters,       \* the metrics recorder: counters and gauges by name
    server          \* start_server: how it serves, and how far it has come

ledgerVars == <<hourly_limit, daily_limit, client_limits, state, mutex, now,
                ticks, pc, client, log>>
modemVars == <<margs, mpc, msession, mresult, net, mout>>
serverVars == <<alert_phone_number, tasks, counters, server>>
vars == <<hourly_limit, daily_limit, client_limits, state, mutex, now, ticks,
          pc, client, log, margs, mpc, msession, mresult, net, mout,
          alert_phone_number, tasks, counters, server>>

(***************************************************************************)
(* Pure helpers.                                                           *)
(***************************************************************************)
\* Instant::duration_since: saturates at zero.
DurationSince(later, earlier) == IF later >= earlier THEN later - earlier ELSE 0

\* Mutant: the increment is forgotten.
U32IncrForgotten(x) == x

\* u32 += 1: past the largest value the count wraps to 0 (a release build;
\* a debug build panics there).  The width is CounterBits bits.
U32Incr(x) == (x + 1) % U32Modulus

Ok == [ok |-> TRUE]
Err(msg) == [ok |-> FALSE, err |-> msg]

\* format!("Hourly limit of {} reached", limit)
HourlyMsg(limit) ==
    [fmt |-> "Hourly limit of {} reached", client |-> None, limit |-> limit]
\* format!("Daily limit of {} reached", limit)
DailyMsg(limit) ==
    [fmt |-> "Daily limit of {} reached", client |-> None, limit |-> limit]
\* format!("Client '{}' hourly limit of {} reached", client_name, limit)
ClientHourlyMsg(name, limit) ==
    [fmt |-> "Client '{}' hourly limit of {} reached", client |-> Some(name),
     limit |-> limit]
\* Mutant: the caller's daily limit reported as the hourly one.
ClientDailyMsgNamesHour(name, limit) ==
    [fmt |-> "Client '{}' hourly limit of {} reached", client |-> Some(name),
     limit |-> limit]

\* format!("Client '{}' daily limit of {} reached", client_name, limit)
ClientDailyMsg(name, limit) ==
    [fmt |-> "Client '{}' daily limit of {} reached", client |-> Some(name),
     limit |-> limit]

\* Mutant: a new entry starts with the unit of its first call counted.
ClientRateLimitStateNewCounted(t) ==
    [hourly_count |-> 1, daily_count |-> 1,
     last_reset_hour |-> t, last_reset_day |-> t]

\* ClientRateLimitState::new at time t
ClientRateLimitStateNew(t) ==
    [hourly_count |-> 0, daily_count |-> 0,
     last_reset_hour |-> t, last_reset_day |-> t]

\* Mutant: the window test written with > instead of >=.
WindowElapsedStrict(t, last_reset, len) == DurationSince(t, last_reset) > len

\* The test `now.duration_since(last_reset) >= Duration::from_secs(len)`.
WindowElapsed(t, last_reset, len) == DurationSince(t, last_reset) >= len

\* Mutant: the caller's windows are tested as they stand, never rolled.
ClientRateLimitStateUpdateNever(cs, t) == cs

\* ClientRateLimitState::update at time t
ClientRateLimitStateUpdate(cs, t) ==
    LET h == WindowElapsed(t, cs.last_reset_hour, HourSecs)
        d == WindowElapsed(t, cs.last_reset_day, DaySecs)
    IN  [hourly_count    |-> IF h THEN 0 ELSE cs.hourly_count,
         last_reset_hour |-> IF h THEN t ELSE cs.last_reset_hour,
         daily_count     |-> IF d THEN 0 ELSE cs.daily_count,
         last_reset_day  |-> IF d THEN t ELSE cs.last_reset_day]

\* Mutant: update resets the counts and forgets to restart the windows.
RateLimitStateUpdateKeepStart(s, t) ==
    LET h == WindowElapsed(t, s.last_reset_hour, HourSecs)
        d == WindowElapsed(t, s.last_reset_day, DaySecs)
    IN  [s EXCEPT !.hourly_count = IF h THEN 0 ELSE @,
                  !.daily_count  = IF d THEN 0 ELSE @]

\* RateLimitState::update at time t: the global windows only.
RateLimitStateUpdate(s, t) ==
    LET h == WindowElapsed(t, s.last_reset_hour, HourSecs)
        d == WindowElapsed(t, s.last_reset_day, DaySecs)
    IN  [s EXCEPT !.hourly_count    = IF h THEN 0 ELSE @,
                  !.last_reset_hour = IF h THEN t ELSE @,
                  !.daily_count     = IF d THEN 0 ELSE @,
                  !.last_reset_day  = IF d THEN t ELSE @]

\* Mutant: the ceiling test written with > instead of >=.
LimitReachedOffByOne(count, limit) == count > limit

\* The ceiling test `count >= limit` of check_and_increment.
LimitReached(count, limit) == count >= limit

\* Mutant: no mutual exclusion (check and increment as separate regions).
MutexNeverHeld == TRUE

\* `self.state.lock()` returns only when no other thread holds the mutex.
MutexFree == mutex = NoThread

\* Mutant: insert instead of entry().or_insert_with(): a fresh state each call.
EntryAlwaysInsert(cstate, name, t) ==
    [n \in DOMAIN cstate \cup {name} |->
        IF n = name THEN ClientRateLimitStateNew(t) ELSE cstate[n]]

\* HashMap::entry(name).or_insert_with(ClientRateLimitState::new)
EntryOrInsert(cstate, name, t) ==
    IF name \in DOMAIN cstate
        THEN cstate
        ELSE [n \in DOMAIN cstate \cup {name} |->
                 IF n = name THEN ClientRateLimitStateNew(t) ELSE cstate[n]]

\* Mutant: every caller with a name has limits of its own.
IsConfiguredAnyName(c) == c # None

\* `let Some(client_name) = client && let Some(..) = self.client_limits.get(..)`
IsConfigured(c) == c # None /\ c[1] \in DOMAIN client_limits

InFlight == {t \in Threads : pc[t] # "idle"}

(***************************************************************************)
(* Init: the state RateLimiter::new leaves, for every configuration.       *)
(***************************************************************************)
Limits == 0..MaxLimit

\* No server runs.
ServerIdle ==
    /\ alert_phone_number = <<>>
    /\ tasks = <<>>
    /\ counters = <<>>
    /\ server = <<>>

\* No modem-client program runs.
ModemIdle ==
    /\ margs = <<>>
    /\ mpc = "none"
    /\ msession = <<>>
    /\ mresult = <<>>
    /\ net = <<>>
    /\ mout = <<>>

Init ==
    /\ ModemIdle
    /\ ServerIdle
    /\ hourly_limit \in Limits
    /\ daily_limit \in Limits
    /\ client_limits \in [ConfiguredNames -> Limits \X Limits]
    /\ state = [hourly_count |-> 0, daily_count |-> 0,
                last_reset_hour |-> 0, last_reset_day |-> 0,
                client_state |-> <<>>]
    /\ mutex = NoThread
    /\ now = 0
    /\ ticks = 0
    /\ pc = [t \in Threads |-> "idle"]
    /\ client = [t \in Threads |-> None]
    /\ log = <<>>

(***************************************************************************)
(* check_and_increment, as the steps of the thread that runs it.           *)
(***************************************************************************)
\* A request handler calls check_and_increment(c) and waits for the mutex.
Call(t, c) ==
    /\ pc[t] = "idle"
    /\ Len(log) + Cardinality(InFlight) < MaxCalls
    /\ pc' = [pc EXCEPT ![t] = "lock"]
    /\ client' = [client EXCEPT ![t] = c]
    /\ UNCHANGED <<hourly_limit, daily_limit, client_limits, state, mutex,
                   now, ticks, log>>
    /\ UNCHANGED modemVars
    /\ UNCHANGED serverVars

\* The thread returns r: the MutexGuard is dropped.
Return(t, r) ==
    /\ log' = Append(log, [client |-> client[t], result |-> r])
    /\ pc' = [pc EXCEPT ![t] = "idle"]
    /\ client' = [client EXCEPT ![t] = None]
    /\ mutex' = NoThread

\* Mutant: the global ceilings tested daily first.
GlobalVerdictDailyFirst(s) ==
    IF LimitReached(s.daily_count, daily_limit)
        THEN Err(DailyMsg(daily_limit))
    ELSE IF LimitReached(s.hourly_count, hourly_limit)
        THEN Err(HourlyMsg(hourly_limit))
    ELSE Ok

\* Lines 145-151: the global ceilings, hourly first.
GlobalVerdict(s) ==
    IF LimitReached(s.hourly_count, hourly_limit)
        THEN Err(HourlyMsg(hourly_limit))
    ELSE IF LimitReached(s.daily_count, daily_limit)
        THEN Err(DailyMsg(daily_limit))
    ELSE Ok

\* Mutant: the caller's own ceilings are not tested.
ClientVerdictNotTested(cs, name, lim) == Ok

\* Lines 164-176: the caller's own ceilings, hourly first.
ClientVerdict(cs, name, lim) ==
    IF LimitReached(cs.hourly_count, lim[1])
        THEN Err(ClientHourlyMsg(name, lim[1]))
    ELSE IF LimitReached(cs.daily_count, lim[2])
        THEN Err(ClientDailyMsg(name, lim[2]))
    ELSE Ok

\* Lines 141-151: lock, roll the global windows, test the global ceilings.
CheckGlobal(t) ==
    /\ pc[t] = "lock"
    /\ MutexFree
    /\ LET s == RateLimitStateUpdate(state, now)
           v == GlobalVerdict(s)
       IN  /\ state' = s
           /\ IF ~v.ok
                 THEN Return(t, v)
                 ELSE /\ mutex' = t
                      /\ pc' = [pc EXCEPT ![t] =
                                   IF IsConfigured(client[t]) THEN "client"
                                                              ELSE "incr"]
                      /\ UNCHANGED <<client, log>>
    /\ UNCHANGED <<hourly_limit, daily_limit, client_limits, now, ticks>>
    /\ UNCHANGED modemVars
    /\ UNCHANGED serverVars

\* Mutant: the caller's counts are incremented before its ceilings are
\* tested, so a rejected call is counted for the caller.
CheckClientCountsRejected(t) ==
    /\ pc[t] = "client"
    /\ LET name == client[t][1]
           lim  == client_limits[name]
           ins  == EntryOrInsert(state.client_state, name, now)
           cs   == ClientRateLimitStateUpdate(ins[name], now)
           v    == ClientVerdict(cs, name, lim)
       IN  /\ state' = [state EXCEPT !.client_state =
                           [ins EXCEPT ![name] =
                               [cs EXCEPT !.hourly_count = U32Incr(@),
                                          !.daily_count = U32Incr(@)]]]
           /\ IF ~v.ok
                 THEN Return(t, v)
                 ELSE /\ pc' = [pc EXCEPT ![t] = "incr"]
                      /\ UNCHANGED <<client, log, mutex>>
    /\ UNCHANGED <<hourly_limit, daily_limit, client_limits, now, ticks>>
    /\ UNCHANGED modemVars
    /\ UNCHANGED serverVars

\* Lines 154-187: the caller's own windows, for a configured caller.
CheckClient(t) ==
    /\ pc[t] = "client"
    /\ LET name == client[t][1]
           lim  == client_limits[name]
           ins  == EntryOrInsert(state.client_state, name, now)
           cs   == ClientRateLimitStateUpdate(ins[name], now)
           v    == ClientVerdict(cs, name, lim)
       IN  IF ~v.ok
              THEN /\ state' = [state EXCEPT !.client_state =
                                   [ins EXCEPT ![name] = cs]]
                   /\ Return(t, v)
              ELSE /\ state' = [state EXCEPT !.client_state =
                                   [ins EXCEPT ![name] =
                                       [cs EXCEPT
                                          !.hourly_count = U32Incr(@),
                                          !.daily_count = U32Incr(@)]]]
                   /\ pc' = [pc EXCEPT ![t] = "incr"]
                   /\ UNCHANGED <<client, log, mutex>>
    /\ UNCHANGED <<hourly_limit, daily_limit, client_limits, now, ticks>>
    /\ UNCHANGED modemVars
    /\ UNCHANGED serverVars

\* Lines 190-198: count the admission in the global windows and return Ok.
IncrementGlobal(t) ==
    /\ pc[t] = "incr"
    /\ state' = [state EXCEPT !.hourly_count = U32Incr(@),
                              !.daily_count = U32Incr(@)]
    /\ Return(t, Ok)
    /\ UNCHANGED <<hourly_limit, daily_limit, client_limits, now, ticks>>
    /\ UNCHANGED modemVars
    /\ UNCHANGED serverVars

\* get_status: lock, roll the global windows, report; it holds the mutex for
\* its whole body.
GetStatus ==
    /\ MutexFree
    /\ state' = RateLimitStateUpdate(state, now)
    /\ UNCHANGED <<hourly_limit, daily_limit, client_limits, mutex, now,
                   ticks, pc, client, log>>
    /\ UNCHANGED modemVars
    /\ UNCHANGED serverVars

\* The clock advances.
Tick(d) ==
    /\ ticks < MaxTicks
    /\ now' = now + d
    /\ ticks' = ticks + 1
    /\ UNCHANGED <<hourly_limit, daily_limit, client_limits, state, mutex,
                   pc, client, log>>
    /\ UNCHANGED modemVars
    /\ UNCHANGED serverVars

Next ==
    \/ \E t \in Threads, c \in ClientArgs : Call(t, c)
    \/ \E t \in Threads : CheckGlobal(t)
    \/ \E t \in Threads : CheckClient(t)
    \/ \E t \in Threads : IncrementGlobal(t)
    \/ GetStatus
    \/ \E d \in TickSteps : Tick(d)

Spec == Init /\ [][Next]_vars

(***************************************************************************)
(* Properties of the rate limiter.                                         *)
(***************************************************************************)
TestClient == "test_client"
UnknownClient == "unknown_client"

Min(a, b) == IF a <= b THEN a ELSE b

\* No window can have rolled yet: every window starts at 0 or later.
NoRollover == now < HourSecs

\* The number of admissions among the first n returned calls.
NumOk(n) == Cardinality({i \in 1..n : log[i].result.ok})
\* The number of admissions of caller c among the first n returned calls.
NumOkBy(c, n) == Cardinality({i \in 1..n : log[i].result.ok /\ log[i].client = c})
NumErr(n) == Cardinality({i \in 1..n : ~log[i].result.ok})

AllAnonymous == \A i \in DOMAIN log : log[i].client = None

\* C1: with only anonymous callers racing for the mutex, global hourly
\* ceiling L, a daily ceiling >= L and no rollover, of N >= L returned calls
\* exactly L were admitted and exactly N-L failed with the hourly quota
\* error, whatever the order in which the threads got the mutex.
C1_ExactlyLAdmitted ==
    (NoRollover /\ AllAnonymous /\ daily_limit >= hourly_limit
       /\ Len(log) >= hourly_limit)
    => /\ NumOk(Len(log)) = hourly_limit
       /\ NumErr(Len(log)) = Len(log) - hourly_limit
       /\ \A i \in DOMAIN log :
             ~log[i].result.ok => log[i].result = Err(HourlyMsg(hourly_limit))

\* Two anonymous calls are blocked on the mutex at once after the ceiling of
\* 1 has been used up by an earlier anonymous call.
C1_Witness ==
    /\ NoRollover /\ AllAnonymous /\ daily_limit >= hourly_limit
    /\ hourly_limit = 1 /\ Len(log) = 1 /\ log[1].result.ok
    /\ \A t \in Threads : pc[t] = "lock" /\ client[t] = None

\* C2: in every reachable state each count is at most its ceiling: the
\* global hourly and daily counts, and every caller's hourly and daily counts.
C2_CountsWithinCeilings ==
    /\ state.hourly_count <= hourly_limit
    /\ state.daily_count <= daily_limit
    /\ \A n \in DOMAIN state.client_state :
          /\ state.client_state[n].hourly_count <= client_limits[n][1]
          /\ state.client_state[n].daily_count <= client_limits[n][2]

\* All four counts of a configuration with positive ceilings are at their
\* ceilings, in windows started after a roll, while another call waits.
C2_Witness ==
    /\ hourly_limit > 0 /\ state.hourly_count = hourly_limit
    /\ state.daily_count = daily_limit
    /\ TestClient \in DOMAIN state.client_state
    /\ state.client_state[TestClient].hourly_count = client_limits[TestClient][1]
    /\ state.client_state[TestClient].daily_count = client_limits[TestClient][2]
    /\ state.last_reset_hour > 0
    /\ \E t \in Threads : pc[t] = "lock"

\* C3: for a caller configured with hourly ceiling H, the global ceilings and
\* the caller's daily ceiling above H and no rollover: as long as only that
\* caller has called, its first H calls are admitted and every later one
\* fails naming the caller and the hourly period; and a call of an
\* unconfigured caller is admitted exactly when the global ceilings are not
\* reached, whatever the configured caller has used.
C3_ClientHourlyCeiling ==
    LET H == client_limits[TestClient][1]
    IN  NoRollover =>
        /\ (hourly_limit > H /\ daily_limit > H /\ client_limits[TestClient][2] > H)
           => \A i \in DOMAIN log :
                 (\A j \in 1..i : log[j].client = Some(TestClient))
                 => log[i].result = IF i <= H THEN Ok
                                    ELSE Err(ClientHourlyMsg(TestClient, H))
        /\ \A i \in DOMAIN log :
              log[i].client = Some(UnknownClient)
              => (log[i].result.ok <=>
                    (NumOk(i - 1) < hourly_limit /\ NumOk(i - 1) < daily_limit))

\* The configured caller is admitted once (H = 1), rejected on its own
\* hourly ceiling, and the unconfigured caller is admitted afterwards.
C3_Witness ==
    /\ NoRollover /\ Len(log) = 3
    /\ client_limits[TestClient][1] = 1
    /\ log[1] = [client |-> Some(TestClient), result |-> Ok]
    /\ log[2] = [client |-> Some(TestClient),
                 result |-> Err(ClientHourlyMsg(TestClient, 1))]
    /\ log[3] = [client |-> Some(UnknownClient), result |-> Ok]

\* C4: once the callers together have G admissions (G the global hourly
\* ceiling) and no window has rolled, the next call to return fails with the
\* global hourly error, whoever issues it.
C4_GlobalCeilingShared ==
    NoRollover =>
    \A i \in DOMAIN log :
        NumOk(i - 1) = hourly_limit
        => log[i].result = Err(HourlyMsg(hourly_limit))

\* G = 1 is used up by the unconfigured caller; the configured caller, whose
\* own ceilings are higher, and the anonymous caller are then both rejected.
C4_Witness ==
    /\ NoRollover /\ Len(log) = 3 /\ hourly_limit = 1
    /\ client_limits[TestClient][1] > 1 /\ client_limits[TestClient][2] > 1
    /\ log[1] = [client |-> Some(UnknownClient), result |-> Ok]
    /\ log[2] = [client |-> Some(TestClient), result |-> Err(HourlyMsg(1))]
    /\ log[3] = [client |-> None, result |-> Err(HourlyMsg(1))]

\* The result the order global-hourly, global-daily, caller-hourly,
\* caller-daily gives a call of caller c made after g admissions in all, k of
\* them of c, when no window has rolled.
C5_Expected(c, g, k) ==
    IF g >= hourly_limit THEN Err(HourlyMsg(hourly_limit))
    ELSE IF g >= daily_limit THEN Err(DailyMsg(daily_limit))
    ELSE IF c # None /\ c[1] \in ConfiguredNames /\ k >= client_limits[c[1]][1]
        THEN Err(ClientHourlyMsg(c[1], client_limits[c[1]][1]))
    ELSE IF c # None /\ c[1] \in ConfiguredNames /\ k >= client_limits[c[1]][2]
        THEN Err(ClientDailyMsg(c[1], client_limits[c[1]][2]))
    ELSE Ok

\* C5: without rollover every call returns what the fixed order of tests
\* gives: the first exhausted ceiling in the order global-hourly,
\* global-daily, caller-hourly, caller-daily is the one reported, and the
\* call is admitted only if none of them is exhausted.  For anonymous callers
\* alone: the first min(Gh, Gd) calls are admitted and the next fails naming
\* hourly if Gh <= Gd and daily otherwise.
C5_FixedOrder ==
    NoRollover =>
    /\ \A i \in DOMAIN log :
          log[i].result =
             C5_Expected(log[i].client, NumOk(i - 1), NumOkBy(log[i].client, i - 1))
    /\ AllAnonymous =>
          \A i \in DOMAIN log :
             log[i].result =
                IF i <= Min(hourly_limit, daily_limit) THEN Ok
                ELSE IF hourly_limit <= daily_limit
                    THEN Err(HourlyMsg(hourly_limit))
                    ELSE Err(DailyMsg(daily_limit))

\* The global daily ceiling (1, below the hourly one) and the caller's own
\* ceilings (1) are exhausted together, and the failure names the global
\* daily ceiling.
C5_Witness ==
    /\ NoRollover /\ Len(log) = 2
    /\ hourly_limit = 2 /\ daily_limit = 1
    /\ client_limits[TestClient] = <<1, 1>>
    /\ log[1] = [client |-> Some(TestClient), result |-> Ok]
    /\ log[2] = [client |-> Some(TestClient), result |-> Err(DailyMsg(1))]

\* The step in which thread t runs lines 141-151.
CheckGlobalStep(t) == pc[t] = "lock" /\ pc'[t] # "lock"
\* The step in which thread t runs lines 154-187.
CheckClientStep(t) == pc[t] = "client" /\ pc'[t] # "client"
\* The step in which thread t returns r.
Returns(t, r) ==
    /\ pc[t] # "idle" /\ pc'[t] = "idle"
    /\ log' = Append(log, [client |-> client[t], result |-> r])

\* C6: when a call evaluates a window whose length has elapsed (3600 s
\* hourly, 86400 s daily), it evaluates it with count 0: the global windows
\* in lines 141-151, the caller's windows in lines 154-187.  The call is then
\* not rejected by that window unless its ceiling is 0.
C6_RolloverStep ==
    \A t \in Threads :
        /\ (CheckGlobalStep(t)
              /\ now - state.last_reset_hour >= HourSecs)
           => /\ state'.hourly_count = 0
              /\ hourly_limit > 0 => ~Returns(t, Err(HourlyMsg(hourly_limit)))
        /\ (CheckGlobalStep(t)
              /\ now - state.last_reset_day >= DaySecs)
           => /\ state'.daily_count = 0
              /\ daily_limit > 0 => ~Returns(t, Err(DailyMsg(daily_limit)))
        /\ (CheckClientStep(t) /\ client[t][1] \in DOMAIN state.client_state)
           => LET n  == client[t][1]
                  cs == state.client_state[n]
                  H  == client_limits[n][1]
                  D  == client_limits[n][2]
              IN  /\ now - cs.last_reset_hour >= HourSecs
                     => /\ state'.client_state[n].hourly_count \in {0, 1}
                        /\ H > 0 => ~Returns(t, Err(ClientHourlyMsg(n, H)))
                  /\ now - cs.last_reset_day >= DaySecs
                     => /\ state'.client_state[n].daily_count \in {0, 1}
                        /\ D > 0 => ~Returns(t, Err(ClientDailyMsg(n, D)))

C6_Rollover == [][C6_RolloverStep]_vars

\* The daily ceiling of 1 was exhausted, a day passed, and the next call was
\* admitted.
C6_Witness ==
    /\ daily_limit = 1 /\ Len(log) = 3
    /\ log[1].result.ok
    /\ log[2].result = Err(DailyMsg(1))
    /\ log[3].result.ok
    /\ state.last_reset_day = DaySecs

\* What C7 says of one window in one step: c, s are its count and start.
C7_Window(c, s, cNew, sNew, len, evaluated) ==
    \* the count decreases only by a roll
    /\ cNew < c => sNew # s
    \* a roll sets the count to 0 and the start to the current time, and
    \* happens only when the window's length has elapsed
    /\ sNew # s => /\ cNew = 0
                   /\ sNew = now
                   /\ now - s >= len
    \* an operation that evaluates the window when its length has elapsed
    \* rolls it
    /\ (evaluated /\ now - s >= len) => (sNew = now /\ cNew = 0)

\* The steps that evaluate the global windows: lines 141-151 of
\* check_and_increment, and get_status (which changes nothing else).
EvaluatesGlobal ==
    \/ \E t \in Threads : CheckGlobalStep(t)
    \/ UNCHANGED <<pc, log, now, mutex>> /\ state' # state

C7_WindowStep ==
    /\ C7_Window(state.hourly_count, state.last_reset_hour,
                 state'.hourly_count, state'.last_reset_hour,
                 HourSecs, EvaluatesGlobal)
    /\ C7_Window(state.daily_count, state.last_reset_day,
                 state'.daily_count, state'.last_reset_day,
                 DaySecs, EvaluatesGlobal)
    /\ \A n \in DOMAIN state.client_state :
          LET cs == state.client_state[n]
              ns == state'.client_state[n]
              ev == \E t \in Threads : CheckClientStep(t) /\ client[t] = Some(n)
              \* lines 154-187 roll the window and count the admission in
              \* one step: the count after the roll is the count less that
              \* admission
              adm == IF ev /\ \E t \in Threads : pc'[t] = "incr" /\ pc[t] = "client"
                        THEN 1 ELSE 0
          IN  /\ n \in DOMAIN state'.client_state
              /\ C7_Window(cs.hourly_count, cs.last_reset_hour,
                           ns.hourly_count - adm, ns.last_reset_hour,
                           HourSecs, ev)
              /\ C7_Window(cs.daily_count, cs.last_reset_day,
                           ns.daily_count - adm, ns.last_reset_day,
                           DaySecs, ev)

\* C7: for every quota window and every step: the count never decreases
\* except by a roll; a roll sets the count to 0 and the window start to the
\* current time; a roll happens when, and only when, an operation evaluates
\* the window with now - window_start >= window_length.
C7_WindowInvariant == [][C7_WindowStep]_vars

\* The hourly window has just been rolled with a positive count while the
\* daily window, not yet a day old, keeps its count.
C7_Witness ==
    /\ state.last_reset_hour = now /\ now >= HourSecs
    /\ state.hourly_count = 0
    /\ state.daily_count > 0 /\ state.last_reset_day = 0
    /\ \E n \in DOMAIN state.client_state :
          /\ state.client_state[n].last_reset_hour > 0
          /\ state.client_state[n].daily_count > 0

(***************************************************************************)
(* The modem client (modem.rs).  A text is a sequence of characters, each  *)
(* a one-character string; a character outside ASCII is written by its     *)
(* code point ("U+00E9").  A response body is the sequence of the XML       *)
(* tokens of response_text.                                                *)
(***************************************************************************)
Open(n) == [k |-> "open", n |-> n]
Close(n) == [k |-> "close", n |-> n]
Text(s) == [k |-> "text", s |-> s]
\* <n>s</n>
Leaf(n, s) == <<Open(n), Text(s), Close(n)>>

\* Result<T, E> with a value.
OkVal(v) == [ok |-> TRUE, val |-> v]

\* The elements and texts from token i up to the next unmatched close tag
\* or the end of the input.
RECURSIVE ParseItems(_, _)
ParseItems(toks, i) ==
    IF i > Len(toks) \/ toks[i].k = "close"
    THEN [ok |-> TRUE, items |-> <<>>, next |-> i]
    ELSE IF toks[i].k = "text"
    THEN LET r == ParseItems(toks, i + 1)
         IN  IF r.ok
             THEN [ok |-> TRUE, items |-> <<toks[i]>> \o r.items, next |-> r.next]
             ELSE r
    ELSE LET inner == ParseItems(toks, i + 1)
         IN  IF \/ ~inner.ok
                \/ inner.next > Len(toks)
                \/ toks[inner.next].n # toks[i].n
             THEN [ok |-> FALSE, items |-> <<>>, next |-> i]
             ELSE LET r == ParseItems(toks, inner.next + 1)
                  IN  IF r.ok
                      THEN [ok |-> TRUE,
                            items |-> <<[k |-> "elem", n |-> toks[i].n,
                                         items |-> inner.items]>> \o r.items,
                            next |-> r.next]
                      ELSE r

\* The root element of a document, or None when the text is not one
\* well-formed element.
ParseDocument(toks) ==
    LET r == ParseItems(toks, 1)
    IN  IF r.ok /\ r.next = Len(toks) + 1 /\ Len(r.items) = 1
           /\ r.items[1].k = "elem"
        THEN Some(r.items[1])
        ELSE None

\* The child elements of node called name, in document order.
Children(node, name) ==
    SelectSeq(node.items, LAMBDA it : it.k = "elem" /\ it.n = name)

\* An element read as a String: its text, "" when it is empty.
DeString(node) ==
    IF node.items = <<>> THEN OkVal(<<>>)
    ELSE IF Len(node.items) = 1 /\ node.items[1].k = "text"
    THEN OkVal(node.items[1].s)
    ELSE Err("invalid type")

DigitChars == <<"0", "1", "2", "3", "4", "5", "6", "7", "8", "9">>
IsDigit(c) == \E i \in DOMAIN DigitChars : DigitChars[i] = c
DigitVal(c) == (CHOOSE i \in DOMAIN DigitChars : DigitChars[i] = c) - 1

RECURSIVE ParseDigits(_, _)
ParseDigits(s, acc) ==
    IF s = <<>> THEN Some(acc)
    ELSE IF IsDigit(Head(s)) THEN ParseDigits(Tail(s), acc * 10 + DigitVal(Head(s)))
    ELSE None

\* The magnitude m, if any, with the sign.
Signed(sign, m) ==
    IF m = None THEN None
    ELSE IF sign = "-" THEN Some(0 - m[1]) ELSE m

\* str::parse::<i32>: an optional sign and at least one digit.
ParseI32(s) ==
    IF s = <<>> THEN None
    ELSE IF Head(s) \in {"+", "-"}
    THEN IF Tail(s) = <<>> THEN None
         ELSE Signed(Head(s), ParseDigits(Tail(s), 0))
    ELSE ParseDigits(s, 0)

\* The text of an element, if it has one, read as an i32.
I32Of(s) ==
    IF ~s.ok THEN s
    ELSE IF ParseI32(s.val) = None THEN Err("invalid digit")
    ELSE OkVal(ParseI32(s.val)[1])

\* An element read as an i32.
DeI32(node) == I32Of(DeString(node))

\* Deserialize::deserialize for the type called ty, on an element.
RECURSIVE De(_, _)

\* Of the elements cs of one name, the only one, read as a ty.
OnlyOne(cs, ty) ==
    IF cs = <<>> THEN Err("missing field")
    ELSE IF Len(cs) > 1 THEN Err("duplicate field")
    ELSE De(ty, cs[1])

\* A required field of a struct: exactly one child of that name.
Field(node, name, ty) == OnlyOne(Children(node, name), ty)

\* Of the fields f of a struct, read in order, the first that failed, or
\* else their values.
Fields(f) ==
    IF \E i \in DOMAIN f : ~f[i].ok
    THEN f[CHOOSE i \in DOMAIN f : ~f[i].ok /\ \A j \in 1..(i - 1) : f[j].ok]
    ELSE OkVal([i \in DOMAIN f |-> f[i].val])

SessionInfoOf(f) ==
    IF f.ok THEN OkVal([session_id |-> f.val[1], token |-> f.val[2]]) ELSE f

\* SessionInfo: SesInfo and TokInfo, both Strings.
DeSessionInfo(node) ==
    SessionInfoOf(Fields(<<Field(node, "SesInfo", "String"),
                           Field(node, "TokInfo", "String")>>))

ModemErrorResponseOf(f) ==
    IF f.ok THEN OkVal([code |-> f.val[1], message |-> f.val[2]]) ELSE f

\* ModemErrorResponse: code, an i32, and message, a String.
DeModemErrorResponse(node) ==
    ModemErrorResponseOf(Fields(<<Field(node, "code", "i32"),
                                  Field(node, "message", "String")>>))

\* The discriminants of the enums of types.rs.
SmsTypeRepr == {1, 2, 5, 7, 8, -1}
PriorityRepr == {0, 1, 2, 3, 4}
SmsStatRepr == {0, 1, -1}

\* Deserialize_repr: an i32 that is one of the enum's discriminants.
Repr(v, discriminants) ==
    IF v.ok /\ v.val \notin discriminants THEN Err("invalid value") ELSE v

DeSmsStat(node) == Repr(DeI32(node), SmsStatRepr)
DePriority(node) == Repr(DeI32(node), PriorityRepr)
DeSmsType(node) == Repr(DeI32(node), SmsTypeRepr)

SmsMessageOf(f) ==
    IF f.ok
    THEN OkVal([smstat |-> f.val[1], index |-> f.val[2], phone |-> f.val[3],
                content |-> f.val[4], date |-> f.val[5], sca |-> f.val[6],
                save_type |-> f.val[7], priority |-> f.val[8],
                sms_type |-> f.val[9]])
    ELSE f

\* SmsMessage: its nine fields, in the order of the struct.
DeSmsMessage(node) ==
    SmsMessageOf(Fields(<< Field(node, "Smstat", "SmsStat"),
                           Field(node, "Index", "i32"),
                           Field(node, "Phone", "String"),
                           Field(node, "Content", "String"),
                           Field(node, "Date", "String"),
                           Field(node, "Sca", "String"),
                           Field(node, "SaveType", "i32"),
                           Field(node, "Priority", "Priority"),
                           Field(node, "SmsType", "SmsType") >>))

\* Every element of cs read as an SmsMessage.
DeSmsMessageEach(cs) == [i \in DOMAIN cs |-> De("SmsMessage", cs[i])]

SmsMessagesOf(f) == IF f.ok THEN OkVal([message |-> f.val]) ELSE f

\* Mutant: a Messages element without a Message is a missing field.
DeSmsMessagesNoDefault(node) ==
    IF Children(node, "Message") = <<>> THEN Err("missing field")
    ELSE SmsMessagesOf(Fields(DeSmsMessageEach(Children(node, "Message"))))

\* SmsMessages: every Message child; none is an empty list (serde default).
DeSmsMessages(node) ==
    SmsMessagesOf(Fields(DeSmsMessageEach(Children(node, "Message"))))

SmsListResponseOf(f) ==
    IF f.ok THEN OkVal([count |-> f.val[1], messages |-> f.val[2]]) ELSE f

\* SmsListResponse: Count, an i32, and Messages; both are required.
DeSmsListResponse(node) ==
    SmsListResponseOf(Fields(<<Field(node, "Count", "i32"),
                               Field(node, "Messages", "SmsMessages")>>))

De(ty, node) ==
    CASE ty = "String"             -> DeString(node)
      [] ty = "i32"                -> DeI32(node)
      [] ty = "SmsStat"            -> DeSmsStat(node)
      [] ty = "Priority"           -> DePriority(node)
      [] ty = "SmsType"            -> DeSmsType(node)
      [] ty = "SmsMessage"         -> DeSmsMessage(node)
      [] ty = "SmsMessages"        -> DeSmsMessages(node)
      [] ty = "SmsListResponse"    -> DeSmsListResponse(node)
      [] ty = "SessionInfo"        -> DeSessionInfo(node)
      [] ty = "ModemErrorResponse" -> DeModemErrorResponse(node)

\* The root element doc of the document, if it has one, read as a ty.
Root(doc, ty) == IF doc = None THEN Err("syntax") ELSE De(ty, doc[1])

\* from_str::<T>: the document's root element read as a T.  The name of the
\* root element is not compared with the struct's.
FromStr(response_text, ty) == Root(ParseDocument(response_text), ty)

\* The variants of modem::Error that the three operations construct.
ReqwestError(e) == [variant |-> "ReqwestError", e |-> e]
ModemError(code, message) ==
    [variant |-> "ModemError", code |-> code, message |-> message]
SessionError(msg) == [variant |-> "SessionError", msg |-> msg]
\* Other(format!(fmt, args...)): the message is kept as its format string
\* and arguments.
Other(fmt, args) == [variant |-> "Other", fmt |-> fmt, args |-> args]

\* Mutant: a failed request reported as Error::Other.
FromReqwestErrorAsOther(e) == Other("{}", <<e>>)

\* impl From<reqwest::Error> for Error: what `?` makes of a failed send() or
\* text().
FromReqwestError(e) == ReqwestError(e)

\* Mutant: the error envelope is never recognised.
ErrorOfAlwaysOther(error_response, fmt, args) == Err(Other(fmt, args))

\* The fallback every operation ends with: the body read as the device's
\* error envelope, or else Error::Other with the raw body.
ErrorOf(error_response, fmt, args) ==
    IF error_response.ok
    THEN Err(ModemError(error_response.val.code, error_response.val.message))
    ELSE Err(Other(fmt, args))

ModemErrorOrOther(response_text, fmt, args) ==
    ErrorOf(FromStr(response_text, "ModemErrorResponse"), fmt, args)

SessionPrefix == <<"S", "e", "s", "s", "i", "o", "n", "I", "D", "=">>

\* Mutant: the text is returned whole, with or without the prefix.
StripPrefixKeepsAll(s, prefix) == Some(s)

\* str::strip_prefix
StripPrefix(s, prefix) ==
    IF Len(s) >= Len(prefix) /\ SubSeq(s, 1, Len(prefix)) = prefix
    THEN Some(SubSeq(s, Len(prefix) + 1, Len(s)))
    ELSE None

\* Lines 211-218: the session id without its prefix and the token, or
\* Error::SessionError.
SessionOf(session_id, token) ==
    IF session_id = None
    THEN Err(SessionError("SesInfo did not start with 'SessionID='"))
    ELSE OkVal(<<session_id[1], token>>)

\* Lines 209-233: the match on the parsed SessionInfo.
MatchSessionInfo(session_info, response_text) ==
    IF session_info.ok
    THEN SessionOf(StripPrefix(session_info.val.session_id, SessionPrefix),
                   session_info.val.token)
    ELSE ModemErrorOrOther(response_text, "Failed to get session info: {}",
                           <<response_text>>)

\* get_session_info, lines 207-233: what it returns for a body.
GetSessionInfoResult(response_text) ==
    MatchSessionInfo(FromStr(response_text, "SessionInfo"), response_text)

\* Mutant: a body that is not a list is a protocol error, whatever else it
\* is.
MatchSmsListResponseGivesUp(r, response_text) ==
    IF r.ok THEN r
    ELSE Err(Other("Failed to get SMS list: {} Error: {}",
                   <<response_text, r.err>>))

\* Lines 153-168: the match on the parsed SmsListResponse.
MatchSmsListResponse(r, response_text) ==
    IF r.ok THEN r
    ELSE ModemErrorOrOther(response_text, "Failed to get SMS list: {} Error: {}",
                           <<response_text, r.err>>)

\* get_sms_list, lines 153-168.
GetSmsListResult(response_text) ==
    MatchSmsListResponse(FromStr(response_text, "SmsListResponse"), response_text)

\* The success marker of send_sms, "<response>OK</response>".
OkMarker == Leaf("response", <<"O", "K">>)

\* Mutant: the marker must be the whole body.
ContainsWhole(s, sub) == s = sub

\* str::contains
Contains(s, sub) ==
    \E i \in 1..(Len(s) - Len(sub) + 1) : SubSeq(s, i, i + Len(sub) - 1) = sub

\* send_sms, lines 284-299.
SendSmsResult(response_text) ==
    IF Contains(response_text, OkMarker) THEN Ok
    ELSE ModemErrorOrOther(response_text, "Failed to send SMS: {}",
                           <<response_text>>)

\* char::is_whitespace, on the characters the inputs use.
IsWhitespace(c) == c \in {" ", "\t", "\n", "U+00A0"}

\* The number of bytes of a character in UTF-8, on the characters the
\* inputs use.
Utf8Width(c) == IF c \in {"U+00E9", "U+00A0"} THEN 2 ELSE 1

\* str::len: the length in bytes.
RECURSIVE StrLen(_)
StrLen(s) == IF s = <<>> THEN 0 ELSE Utf8Width(Head(s)) + StrLen(Tail(s))

\* The SmsRequest that send_sms serializes (lines 250-262).
SmsRequest(to, message) ==
    [Index    |-> -1,
     Phones   |-> <<SelectSeq(to, LAMBDA c : ~IsWhitespace(c))>>,
     Sca      |-> <<>>,
     Content  |-> message,
     Length   |-> StrLen(message),
     Reserved |-> -1,
     Date     |-> -1]

\* The SmsListRequest that get_sms_list serializes (lines 128-135).
SmsListRequest(params) ==
    [PageIndex       |-> 1,
     ReadCount       |-> params.read_count,
     BoxType         |-> params.box_type,
     SortType        |-> params.sort_type,
     Ascending       |-> IF params.ascending THEN 1 ELSE 0,
     UnreadPreferred |-> IF params.unread_preferred THEN 1 ELSE 0]

\* The headers of the two POSTs to the modem.
ModemHeaders(session_id, token) ==
    [Cookie                   |-> SessionPrefix \o session_id,
     XRequestedWith           |-> "XMLHttpRequest",
     RequestVerificationToken |-> token,
     ContentType              |-> "text/xml"]

\* The device operation that runs is the next to return.
CurrentCall == Len(mresult) + 1

\* An HTTP request on the wire, not yet answered.
Request(host, method, path, headers, body) ==
    [call |-> CurrentCall, host |-> host, method |-> method, path |-> path,
     headers |-> headers, body |-> body, resp |-> None]

\* The request that waits is answered by r.
Answered(r) == [net EXCEPT ![Len(net)].resp = Some(r)]

(***************************************************************************)
(* The inputs: what the device and the gateway may answer, and the         *)
(* arguments of the program.                                               *)
(***************************************************************************)
Abc123 == <<"a", "b", "c", "1", "2", "3">>
Tok == <<"t", "o", "k">>
Busy == <<"B", "u", "s", "y">>

SessionBody(ses_info, extra) ==
    <<Open("response")>> \o Leaf("SesInfo", ses_info) \o Leaf("TokInfo", Tok)
        \o extra \o <<Close("response")>>

ErrorFields(code) == Leaf("code", code) \o Leaf("message", Busy)

ErrorBody(code) == <<Open("error")>> \o ErrorFields(code) \o <<Close("error")>>

MessageBody ==
    <<Open("Message")>>
        \o Leaf("Smstat", <<"0">>) \o Leaf("Index", <<"4", "0">>)
        \o Leaf("Phone", <<"+", "1">>) \o Leaf("Content", <<"h", "i">>)
        \o Leaf("Date", <<"2", "0", "2", "5">>)
        \o <<Open("Sca"), Close("Sca")>>
        \o Leaf("SaveType", <<"0">>) \o Leaf("Priority", <<"0">>)
        \o Leaf("SmsType", <<"1">>)
        \o <<Close("Message")>>

\* A second message, stored before the first and listed after it.
SecondMessageBody ==
    <<Open("Message")>>
        \o Leaf("Smstat", <<"1">>) \o Leaf("Index", <<"7">>)
        \o Leaf("Phone", <<"+", "2">>) \o Leaf("Content", <<"y", "o">>)
        \o Leaf("Date", <<"2", "0", "2", "4">>)
        \o <<Open("Sca"), Close("Sca")>>
        \o Leaf("SaveType", <<"0">>) \o Leaf("Priority", <<"0">>)
        \o Leaf("SmsType", <<"1">>)
        \o <<Close("Message")>>

ListBody(count, messages) ==
    <<Open("response")>> \o Leaf("Count", count) \o messages
        \o <<Close("response")>>

DeviceBodies ==
    { SessionBody(SessionPrefix \o Abc123, <<>>),
      SessionBody(SessionPrefix, <<>>),
      SessionBody(Abc123, <<>>),
      SessionBody(Abc123, ErrorFields(<<"1">>)),
      ErrorBody(<<"1", "2", "5", "0", "0", "3">>),
      ErrorBody(<<"x">>),
      OkMarker,
      <<Open("error")>> \o ErrorFields(<<"1">>) \o OkMarker \o <<Close("error")>>,
      <<Text(<<"o", "o", "p", "s">>)>>,
      ListBody(<<"1">>, <<Open("Messages")>> \o MessageBody \o <<Close("Messages")>>),
      ListBody(<<"2">>, <<Open("Messages")>> \o MessageBody
                            \o SecondMessageBody \o <<Close("Messages")>>),
      ListBody(<<"0">>, <<Open("Messages"), Close("Messages")>>),
      ListBody(<<"0">>, <<>>) }

\* How send() or text() fails: the device is unreachable, the 10 s timeout
\* expires, or the body cannot be read.
TransportFailures == {"connect", "timeout", "body"}

\* What a request to the modem meets.
DeviceResponses ==
    {[kind |-> e] : e \in TransportFailures}
        \cup {[kind |-> "text", text |-> b] : b \in DeviceBodies}

\* What a request to the remote gateway meets: no connection, or a status
\* and a JSON body (unreadable, without "messages", or with a list of n
\* messages or something that is not a list of messages).
GatewayJson ==
    { [t |-> "invalid"],
      [t |-> "object", messages |-> None],
      [t |-> "object", messages |-> Some([valid |-> TRUE, n |-> 1])],
      [t |-> "object", messages |-> Some([valid |-> FALSE, n |-> 0])] }

GatewayResponses ==
    {[kind |-> "connect"]}
        \cup {[kind |-> "response", status |-> st, json |-> j] :
                 st \in {200, 429}, j \in GatewayJson}

ToArgs == { <<"+", "1">>, <<"+", " ", "1">> }
MessageArgs == { <<"h", "i">>, <<"U+00E9">> }
SessionArgs == { <<Abc123, Tok>>, <<<<>>, <<>>>> }

\* SmsListParams as the CLI's defaults give them, with either order.
ListParams(ascending) ==
    [box_type |-> 1, sort_type |-> 0, read_count |-> 20,
     ascending |-> ascending, unread_preferred |-> FALSE]

NoArgs ==
    [prog |-> "none", remote_url |-> FALSE, dry_run |-> FALSE, to |-> <<>>,
     message |-> <<>>, ascending |-> FALSE, json |-> FALSE]

\* The programs: each operation of modem.rs called on its own, and the
\* send and receive commands of cli.rs.
ProgramArgs ==
    {[NoArgs EXCEPT !.prog = "get_session_info"]}
    \cup {[NoArgs EXCEPT !.prog = "send_sms", !.dry_run = d, !.to = t,
                         !.message = m] :
             d \in BOOLEAN, t \in ToArgs, m \in MessageArgs}
    \cup {[NoArgs EXCEPT !.prog = "get_sms_list", !.ascending = a] :
             a \in BOOLEAN}
    \cup {[NoArgs EXCEPT !.prog = "cli_send", !.remote_url = u, !.dry_run = d,
                         !.to = t, !.message = m] :
             u \in BOOLEAN, d \in BOOLEAN, t \in ToArgs, m \in MessageArgs}
    \cup {[NoArgs EXCEPT !.prog = "cli_receive", !.remote_url = u,
                         !.ascending = a, !.json = j] :
             u \in BOOLEAN, a \in BOOLEAN, j \in BOOLEAN}

(***************************************************************************)
(* The modem-client programs.  No rate limiter exists in them.             *)
(***************************************************************************)
LedgerIdle ==
    /\ hourly_limit = 0 /\ daily_limit = 0
    /\ client_limits = [n \in ConfiguredNames |-> <<0, 0>>]
    /\ state = [hourly_count |-> 0, daily_count |-> 0,
                last_reset_hour |-> 0, last_reset_day |-> 0,
                client_state |-> <<>>]
    /\ mutex = NoThread /\ now = 0 /\ ticks = 0
    /\ pc = [t \in Threads |-> "idle"]
    /\ client = [t \in Threads |-> None]
    /\ log = <<>>

\* Where a program starts.
EntryOf(prog) ==
    CASE prog = "get_session_info" -> "session_entry"
      [] prog = "send_sms"         -> "send_entry"
      [] prog = "get_sms_list"     -> "list_entry"
      [] OTHER                     -> "cli_entry"

InitModem ==
    /\ LedgerIdle
    /\ ServerIdle
    /\ margs \in ProgramArgs
    /\ mpc = EntryOf(margs.prog)
    /\ IF margs.prog \in {"send_sms", "get_sms_list"}
       THEN \E sa \in SessionArgs : msession = Some(sa)
       ELSE msession = None
    /\ mresult = <<>>
    /\ net = <<>>
    /\ mout = <<>>

\* println! and eprintln!, kept as format string and arguments.
Println(fmt, args) == [stream |-> "stdout", fmt |-> fmt, args |-> args]
Eprintln(fmt, args) == [stream |-> "stderr", fmt |-> fmt, args |-> args]

\* cli.rs, lines 227-244: the messages as JSON, or a count and one block
\* for each message.
PrintMessages(messages) ==
    IF margs.json
    THEN <<Println("{}", <<messages>>)>>
    ELSE <<Println("Received {} SMS messages:", <<Len(messages)>>)>>
            \o [i \in DOMAIN messages |-> Println("  From: {} ...", <<messages[i]>>)]

\* What run() does when a device operation returns to it (lines 127-143
\* and 200-225): the position it goes to, the session it holds, the lines
\* it prints.
CliResume(op, result) ==
    CASE op = "get_session_info" /\ result.ok ->
            [mpc |-> IF margs.prog = "cli_send" THEN "send_entry" ELSE "list_entry",
             msession |-> Some(result.val),
             lines |-> <<Println("Session ID: {}", <<result.val[1]>>),
                         Println("Token: {}", <<result.val[2]>>)>>]
      [] op = "get_session_info" /\ ~result.ok ->
            [mpc |-> "done", msession |-> msession,
             lines |-> <<Eprintln("Error getting session info: {}", <<result.err>>)>>]
      [] op = "send_sms" ->
            [mpc |-> "done", msession |-> msession,
             lines |-> IF result.ok THEN <<>>
                       ELSE <<Eprintln("Error sending SMS: {}", <<result.err>>)>>]
      [] op = "get_sms_list" ->
            [mpc |-> "done", msession |-> msession,
             lines |-> IF result.ok THEN PrintMessages(result.val.messages.message)
                       ELSE <<Eprintln("Error receiving SMS: {}", <<result.err>>)>>]

\* A device operation returns result, having printed lines, to its caller:
\* to the test that called it, or to run().
ModemReturn(op, result, lines) ==
    /\ mresult' = Append(mresult, [op |-> op, result |-> result])
    /\ IF margs.prog = op
       THEN /\ mpc' = "done"
            /\ mout' = mout \o lines
            /\ UNCHANGED msession
       ELSE LET c == CliResume(op, result)
            IN  /\ mpc' = c.mpc
                /\ msession' = c.msession
                /\ mout' = mout \o lines \o c.lines

\* What `?` returns when send() or text() failed, or else what the
\* operation op makes of the body.
ResponseResult(r, op) ==
    IF r.kind \in TransportFailures THEN Err(FromReqwestError(r.kind))
    ELSE CASE op = "get_session_info" -> GetSessionInfoResult(r.text)
           [] op = "send_sms"         -> SendSmsResult(r.text)
           [] op = "get_sms_list"     -> GetSmsListResult(r.text)

\* get_session_info, lines 200-204: the GET is issued.
GetSessionInfoRequest ==
    /\ mpc = "session_entry"
    /\ net' = Append(net, Request("modem", "GET", "/api/webserver/SesTokInfo",
                                  None, None))
    /\ mpc' = "session_await"
    /\ UNCHANGED <<margs, msession, mresult, mout>>
    /\ UNCHANGED ledgerVars
    /\ UNCHANGED serverVars

\* get_session_info, lines 204-233: the answer arrives and is read.
GetSessionInfoResponse(r) ==
    /\ mpc = "session_await"
    /\ net' = Answered(r)
    /\ ModemReturn("get_session_info", ResponseResult(r, "get_session_info"), <<>>)
    /\ UNCHANGED margs
    /\ UNCHANGED ledgerVars
    /\ UNCHANGED serverVars

\* Mutant: dry_run is not looked at.
SendSmsDryRunIgnored == FALSE

\* The test of line 268.
SendSmsDryRun == margs.dry_run

\* send_sms, lines 245-280: the request is built; with dry_run the
\* operation returns Ok here, otherwise the POST is issued.
SendSmsEntry ==
    /\ mpc = "send_entry"
    /\ IF SendSmsDryRun
       THEN /\ ModemReturn("send_sms", Ok,
                           <<Println("DRY RUN: Not sending message.", <<>>)>>)
            /\ UNCHANGED net
       ELSE /\ net' = Append(net, Request("modem", "POST", "/api/sms/send-sms",
                                 Some(ModemHeaders(msession[1][1], msession[1][2])),
                                 Some(SmsRequest(margs.to, margs.message))))
            /\ mpc' = "send_await"
            /\ UNCHANGED <<msession, mresult, mout>>
    /\ UNCHANGED margs
    /\ UNCHANGED ledgerVars
    /\ UNCHANGED serverVars

\* send_sms, lines 280-299.
SendSmsResponse(r) ==
    /\ mpc = "send_await"
    /\ net' = Answered(r)
    /\ LET result == ResponseResult(r, "send_sms")
       IN  ModemReturn("send_sms", result,
                       IF result.ok THEN <<Println("SMS sent successfully!", <<>>)>>
                       ELSE <<>>)
    /\ UNCHANGED margs
    /\ UNCHANGED ledgerVars
    /\ UNCHANGED serverVars

\* get_sms_list, lines 123-149.
GetSmsListRequest ==
    /\ mpc = "list_entry"
    /\ net' = Append(net, Request("modem", "POST", "/api/sms/sms-list",
                          Some(ModemHeaders(msession[1][1], msession[1][2])),
                          Some(SmsListRequest(ListParams(margs.ascending)))))
    /\ mpc' = "list_await"
    /\ UNCHANGED <<margs, msession, mresult, mout>>
    /\ UNCHANGED ledgerVars
    /\ UNCHANGED serverVars

\* get_sms_list, lines 149-168.
GetSmsListResponse(r) ==
    /\ mpc = "list_await"
    /\ net' = Answered(r)
    /\ ModemReturn("get_sms_list", ResponseResult(r, "get_sms_list"), <<>>)
    /\ UNCHANGED margs
    /\ UNCHANGED ledgerVars
    /\ UNCHANGED serverVars

\* StatusCode::is_success
IsSuccess(status) == status >= 200 /\ status <= 299

\* run(), lines 96-127 and 145-200: the command is dispatched.  With a
\* remote URL the request goes to the gateway, except that a dry-run send
\* returns at once; without one the program calls get_session_info.
CliRun ==
    /\ mpc = "cli_entry"
    /\ IF margs.remote_url
       THEN IF margs.prog = "cli_send"
            THEN IF margs.dry_run
                 THEN /\ mout' = Append(mout, Println("DRY RUN: Not sending message.", <<>>))
                      /\ mpc' = "done"
                      /\ UNCHANGED net
                 ELSE /\ net' = Append(net, Request("remote", "POST", "/send-sms", None,
                                   Some([to |-> margs.to, message |-> margs.message])))
                      /\ mpc' = "remote_send_await"
                      /\ UNCHANGED mout
            ELSE /\ net' = Append(net, Request("remote", "GET", "/get-sms", None,
                              Some([count |-> 20, ascending |-> margs.ascending,
                                    unread_preferred |-> FALSE,
                                    box_type |-> 1, sort_by |-> 0])))
                 /\ mpc' = "remote_receive_await"
                 /\ UNCHANGED mout
       ELSE /\ mpc' = "session_entry"
            /\ UNCHANGED <<net, mout>>
    /\ UNCHANGED <<margs, msession, mresult>>
    /\ UNCHANGED ledgerVars
    /\ UNCHANGED serverVars

\* run(), lines 114-125: the gateway's answer to the send.
RemoteSendResponse(g) ==
    /\ mpc = "remote_send_await"
    /\ net' = Answered(g)
    /\ mout' = Append(mout,
          IF g.kind = "connect"
          THEN Eprintln("Failed to connect to remote server: {}", <<g.kind>>)
          ELSE IF IsSuccess(g.status)
          THEN Println("SMS sent successfully via remote server!", <<>>)
          ELSE Eprintln("Error sending SMS via remote server: {} - {}",
                        <<g.status, g.json>>))
    /\ mpc' = "done"
    /\ UNCHANGED <<margs, msession, mresult>>
    /\ UNCHANGED ledgerVars
    /\ UNCHANGED serverVars

\* run(), lines 170-198: the messages in the gateway's answer, or None when
\* the program returns without any.
RemoteMessages(g) ==
    IF g.kind = "connect" \/ ~IsSuccess(g.status) THEN None
    ELSE IF g.json.t = "invalid" \/ g.json.messages = None THEN None
    ELSE LET m == g.json.messages[1]
         IN  Some(IF m.valid THEN [i \in 1..m.n |-> "message"] ELSE <<>>)

\* run(), lines 170-198 and 227-244: the gateway's answer to the receive.
RemoteReceiveResponse(g) ==
    /\ mpc = "remote_receive_await"
    /\ net' = Answered(g)
    /\ mout' = mout \o
          (IF g.kind = "connect"
           THEN <<Eprintln("Failed to connect to remote server: {}", <<g.kind>>)>>
           ELSE IF ~IsSuccess(g.status)
           THEN <<Eprintln("Error receiving SMS via remote server: {} - {}",
                           <<g.status, g.json>>)>>
           ELSE IF RemoteMessages(g) = None
           THEN <<Eprintln("Invalid response from remote server: {}", <<g.json>>)>>
           ELSE PrintMessages(RemoteMessages(g)[1]))
    /\ mpc' = "done"
    /\ UNCHANGED <<margs, msession, mresult>>
    /\ UNCHANGED ledgerVars
    /\ UNCHANGED serverVars

NextModem ==
    \/ CliRun
    \/ GetSessionInfoRequest
    \/ \E r \in DeviceResponses : GetSessionInfoResponse(r)
    \/ SendSmsEntry
    \/ \E r \in DeviceResponses : SendSmsResponse(r)
    \/ GetSmsListRequest
    \/ \E r \in DeviceResponses : GetSmsListResponse(r)
    \/ \E g \in GatewayResponses : RemoteSendResponse(g)
    \/ \E g \in GatewayResponses : RemoteReceiveResponse(g)

SpecModem == InitModem /\ [][NextModem]_vars

(***************************************************************************)
(* Properties of the modem client.                                         *)
(***************************************************************************)
SendSmsPath == "/api/sms/send-sms"
SesTokInfoPath == "/api/webserver/SesTokInfo"

\* The requests issued by the k-th device operation.
RequestsOf(k) == {i \in DOMAIN net : net[i].host = "modem" /\ net[i].call = k}

\* C8: with dry_run, send_sms issues no request to the device (no request
\* to the send endpoint is ever on the wire, and a program that only calls
\* send_sms issues none at all) and whenever it returns it returns Ok, for
\* every recipient, content and session; the CLI send with a remote URL and
\* dry-run issues no request at all.
C8_DryRunNoRequest ==
    margs.prog \in {"send_sms", "cli_send"} /\ margs.dry_run =>
        /\ \A i \in DOMAIN net : net[i].path # SendSmsPath
        /\ mpc # "send_await"
        /\ margs.prog = "send_sms" => net = <<>>
        /\ \A k \in DOMAIN mresult :
              mresult[k].op = "send_sms" =>
                  /\ mresult[k].result = Ok
                  /\ RequestsOf(k) = {}
        /\ margs.remote_url => net = <<>> /\ mresult = <<>>

\* send_sms with dry_run has returned Ok for a recipient with whitespace,
\* with nothing on the wire.
C8_Witness ==
    /\ margs.prog = "send_sms" /\ margs.dry_run
    /\ margs.to = <<"+", " ", "1">>
    /\ mpc = "done"
    /\ mresult = <<[op |-> "send_sms", result |-> Ok]>>
    /\ net = <<>>

\* C9: a request of get_session_info, get_sms_list or send_sms that meets
\* an unreachable device or a timeout makes the operation return
\* Error::ReqwestError (not Ok, ModemError or Other), and no operation
\* issues more than one request.
C9_TransportErrorNoRetry ==
    /\ \A i \in DOMAIN net :
          (/\ net[i].host = "modem"
           /\ net[i].resp # None
           /\ net[i].resp[1].kind \in TransportFailures)
          => /\ net[i].call \in DOMAIN mresult
             /\ mresult[net[i].call].op \in
                   {"get_session_info", "get_sms_list", "send_sms"}
             /\ ~mresult[net[i].call].result.ok
             /\ mresult[net[i].call].result.err =
                   [variant |-> "ReqwestError", e |-> net[i].resp[1].kind]
    /\ \A k \in 1..(Len(mresult) + 1) : Cardinality(RequestsOf(k)) <= 1
    /\ \A i \in DOMAIN net : net[i].host = "modem" => net[i].call <= Len(mresult) + 1

\* get_sms_list met a timeout: it returned ReqwestError after its one
\* request.
C9_Witness ==
    /\ margs.prog = "get_sms_list" /\ mpc = "done"
    /\ Len(net) = 1 /\ net[1].resp = Some([kind |-> "timeout"])
    /\ Len(mresult) = 1
    /\ mresult[1].result.err.variant = "ReqwestError"

\* s starts with "SessionID=".
C10_HasPrefix(s) ==
    Len(s) >= Len(SessionPrefix)
        /\ \A i \in DOMAIN SessionPrefix : s[i] = SessionPrefix[i]

\* C10: when the body of the session answer parses as SessionInfo,
\* get_session_info returns the SesInfo text without its prefix
\* "SessionID=" together with the token ("SessionID=abc123" gives
\* "abc123"); if the text lacks the prefix it returns SessionError, also
\* when the body has the fields of the error envelope.
C10_SessionIdExtraction ==
    \A i \in DOMAIN net :
        (/\ net[i].path = SesTokInfoPath
         /\ net[i].resp # None
         /\ net[i].resp[1].kind = "text")
        => LET body == net[i].resp[1].text
               info == FromStr(body, "SessionInfo")
               res  == mresult[net[i].call].result
           IN  /\ info.ok /\ C10_HasPrefix(info.val.session_id)
                  => /\ res.ok
                     /\ SessionPrefix \o res.val[1] = info.val.session_id
                     /\ res.val[2] = info.val.token
               /\ info.ok /\ ~C10_HasPrefix(info.val.session_id)
                  => /\ ~res.ok
                     /\ res.err.variant = "SessionError"
               /\ body = SessionBody(SessionPrefix \o Abc123, <<>>)
                  => res = OkVal(<<Abc123, Tok>>)
               /\ body \in {SessionBody(Abc123, <<>>),
                            SessionBody(Abc123, ErrorFields(<<"1">>))}
                  => ~res.ok /\ res.err.variant = "SessionError"

\* The session text lacks the prefix in a body that also reads as the error
\* envelope: get_session_info returned SessionError.
C10_Witness ==
    /\ margs.prog = "get_session_info" /\ mpc = "done"
    /\ Len(net) = 1
    /\ net[1].resp = Some([kind |-> "text",
                           text |-> SessionBody(Abc123, ErrorFields(<<"1">>))])
    /\ FromStr(SessionBody(Abc123, ErrorFields(<<"1">>)), "ModemErrorResponse").ok
    /\ mresult[1].result.err.variant = "SessionError"

\* The answered requests to path whose answer has a body.
BodiesAt(path) ==
    {i \in DOMAIN net : /\ net[i].host = "modem" /\ net[i].path = path
                        /\ net[i].resp # None
                        /\ net[i].resp[1].kind = "text"}

\* C11: get_session_info tries the session envelope, then the error
\* envelope: a body that is not a session envelope but is an error envelope
\* gives ModemError with exactly its code and message (125003, "Busy"), and
\* a body that is neither gives Error::Other carrying the raw body.
C11_SessionBodyClassified ==
    \A i \in BodiesAt(SesTokInfoPath) :
        LET body == net[i].resp[1].text
            res  == mresult[net[i].call].result
            env  == FromStr(body, "ModemErrorResponse")
        IN  /\ FromStr(body, "SessionInfo").ok
               => (res.ok \/ res.err.variant = "SessionError")
            /\ ~FromStr(body, "SessionInfo").ok
               => /\ ~res.ok
                  /\ env.ok => res.err = [variant |-> "ModemError",
                                          code |-> env.val.code,
                                          message |-> env.val.message]
                  /\ ~env.ok => /\ res.err.variant = "Other"
                                /\ res.err.args = <<body>>
            /\ body = ErrorBody(<<"1", "2", "5", "0", "0", "3">>)
               => res = Err([variant |-> "ModemError", code |-> 125003,
                             message |-> Busy])

\* The device answered the session GET with the error envelope 125003
\* "Busy", and get_session_info returned ModemError 125003 "Busy".
C11_Witness ==
    /\ margs.prog = "get_session_info" /\ mpc = "done"
    /\ BodiesAt(SesTokInfoPath) = {1}
    /\ net[1].resp[1].text = ErrorBody(<<"1", "2", "5", "0", "0", "3">>)
    /\ mresult[1].result.err.variant = "ModemError"
    /\ mresult[1].result.err.code = 125003

\* The tokens of "<response>OK</response>" stand somewhere in body.
C12_HasMarker(body) ==
    \E i \in 1..(Len(body) - 2) :
        /\ body[i] = Open("response")
        /\ body[i + 1] = Text(<<"O", "K">>)
        /\ body[i + 2] = Close("response")

\* C12: send_sms without dry_run returns Ok exactly when the body contains
\* "<response>OK</response>" anywhere, also inside a body that reads as an
\* error envelope; without the marker an error envelope gives ModemError
\* with its code and message, and any other body gives Error::Other
\* carrying the raw body.
C12_SendSuccessMarker ==
    \A i \in BodiesAt(SendSmsPath) :
        LET body == net[i].resp[1].text
            res  == mresult[net[i].call].result
            env  == FromStr(body, "ModemErrorResponse")
        IN  /\ res.ok <=> C12_HasMarker(body)
            /\ (~C12_HasMarker(body) /\ env.ok)
               => res.err = [variant |-> "ModemError", code |-> env.val.code,
                             message |-> env.val.message]
            /\ (~C12_HasMarker(body) /\ ~env.ok)
               => /\ res.err.variant = "Other"
                  /\ res.err.args = <<body>>

\* The marker stood inside an error envelope, and send_sms returned Ok.
C12_Witness ==
    /\ margs.prog = "send_sms" /\ ~margs.dry_run /\ mpc = "done"
    /\ BodiesAt(SendSmsPath) = {1}
    /\ C12_HasMarker(net[1].resp[1].text)
    /\ net[1].resp[1].text # OkMarker
    /\ FromStr(net[1].resp[1].text, "ModemErrorResponse").ok
    /\ mresult[1].result = Ok

(***************************************************************************)
(* The server: the request handlers of server.rs, each run by a task, one  *)
(* rate limiter shared by all of them, and the modem behind them.          *)
(***************************************************************************)
\* The name alertmanager_handler passes to check_and_increment (line 593).
AlertmanagerClient == "alertmanager"

\* AppState.alert_phone_number when it is configured.
AlertPhone == <<"+", "4", "9", "1", "5">>

Hi == <<"h", "i">>

\* SendSmsRequest: to, message and the optional client.  The recipients
\* are the one the alerts go to and a number without the '+'.
SendSmsRequests ==
    { [to |-> AlertPhone, message |-> Hi, client |-> None],
      [to |-> AlertPhone, message |-> Hi, client |-> Some(AlertmanagerClient)],
      [to |-> <<"0", "1">>, message |-> Hi, client |-> Some("unknown_client")] }

\* HashMap::get
Get(map, key) == IF key \in DOMAIN map THEN Some(map[key]) ELSE None

\* Option::or_else
OrElse(opt, other) == IF opt # None THEN opt ELSE other

\* Option::unwrap_or
UnwrapOr(opt, default) == IF opt # None THEN opt[1] ELSE default

Lowercase == <<"a", "b", "c", "d", "e", "f", "g", "h", "i", "j", "k", "l", "m",
               "n", "o", "p", "q", "r", "s", "t", "u", "v", "w", "x", "y", "z">>
Uppercase == <<"A", "B", "C", "D", "E", "F", "G", "H", "I", "J", "K", "L", "M",
               "N", "O", "P", "Q", "R", "S", "T", "U", "V", "W", "X", "Y", "Z">>

\* str::to_uppercase, on the characters the inputs use.
ToUppercase(s) ==
    [i \in DOMAIN s |->
        IF \E j \in DOMAIN Lowercase : Lowercase[j] = s[i]
        THEN Uppercase[CHOOSE j \in DOMAIN Lowercase : Lowercase[j] = s[i]]
        ELSE s[i]]

UnknownAlert == <<"U", "n", "k", "n", "o", "w", "n", " ", "A", "l", "e", "r", "t">>
Unknown == <<"u", "n", "k", "n", "o", "w", "n">>
NoSummary == <<"N", "o", " ", "s", "u", "m", "m", "a", "r", "y">>

\* alertmanager.rs, lines 36-52: "{}: {} ({}) - {}" of the status in upper
\* case, the alert name, the severity and the summary.
FormatAlertMessage(webhook) ==
    ToUppercase(webhook.status) \o <<":", " ">>
        \o UnwrapOr(Get(webhook.common_labels, "alertname"), UnknownAlert)
        \o <<" ", "(">>
        \o UnwrapOr(Get(webhook.common_labels, "severity"), Unknown)
        \o <<")", " ", "-", " ">>
        \o UnwrapOr(OrElse(Get(webhook.common_annotations, "summary"),
                    OrElse(Get(webhook.common_annotations, "description"),
                           Get(webhook.common_annotations, "message"))),
                    NoSummary)

\* The AlertManagerWebhook payloads: one with a severity and a description
\* and no alert name.
Webhooks ==
    { [status |-> <<"o", "k">>,
       common_labels |-> [severity |-> <<"c">>],
       common_annotations |-> [description |-> <<"d">>]] }

\* GetSmsRequest with its defaults (lines 640-662).
GetSmsRequests ==
    {[count |-> 20, ascending |-> FALSE, unread_preferred |-> FALSE,
      box_type |-> 1, sort_by |-> 0]}

\* What the modem answers to a request of the server: no connection, one of
\* two sessions, the device's error envelope, the success marker, or a list
\* of messages.
ServerDeviceResponses ==
    { [kind |-> "connect"],
      [kind |-> "text", text |-> SessionBody(SessionPrefix \o Abc123, <<>>)],
      [kind |-> "text", text |-> SessionBody(SessionPrefix \o Tok, <<>>)],
      [kind |-> "text", text |-> ErrorBody(<<"1", "2", "5", "0", "0", "3">>)],
      [kind |-> "text", text |-> OkMarker],
      [kind |-> "text",
       text |-> ListBody(<<"1">>, <<Open("Messages")>> \o MessageBody
                                      \o <<Close("Messages")>>)] }

\* What the modem answers to the request of the operation op: to the GET of
\* the session anything but the answers to the POSTs, to a POST anything
\* but a session and the answer to the other POST.
ServerAnswers(op) ==
    {r \in ServerDeviceResponses :
        \/ r.kind = "connect"
        \/ r.kind = "text" /\ r.text = ErrorBody(<<"1", "2", "5", "0", "0", "3">>)
        \/ r.kind = "text" /\ Head(r.text) = Open("response")
              /\ r.text[2] = Open("SesInfo") /\ op = "get_session_info"
        \/ r.kind = "text" /\ r.text = OkMarker /\ op = "send_sms"
        \/ r.kind = "text" /\ Head(r.text) = Open("response")
              /\ r.text[2] = Open("Count") /\ op = "get_sms_list"}

\* The global limits the server's rate limiter is built with: the hour
\* exhausted from the start, the hour exhausted by one admission, and room
\* for every request.
ServerLimits == { <<0, 1>>, <<1, MaxLimit>>, <<MaxLimit, MaxLimit>> }

\* The limits of the clients: none, or some for the alerts.
ServerClientLimits ==
    { <<>>, [n \in {AlertmanagerClient} |-> <<1, MaxLimit>>] }

\* Mutant: an admission is counted in the global hour only.
AdmittedHourOnly(s) ==
    [state  |-> [s EXCEPT !.hourly_count = U32Incr(@)],
     result |-> Ok]

\* check_and_increment, lines 178-198: the admission is counted in the
\* global windows and Ok returned.
Admitted(s) ==
    [state  |-> [s EXCEPT !.hourly_count = U32Incr(@),
                          !.daily_count = U32Incr(@)],
     result |-> Ok]

\* Mutant: an admission is counted for every caller that has an entry.
CheckAndIncrementClientAll(s, name, ins, cs, v) ==
    IF ~v.ok
    THEN [state  |-> [s EXCEPT !.client_state = [ins EXCEPT ![name] = cs]],
          result |-> v]
    ELSE Admitted([s EXCEPT !.client_state =
                      [n \in DOMAIN ins |->
                          [(IF n = name THEN cs ELSE ins[n]) EXCEPT
                              !.hourly_count = U32Incr(@),
                              !.daily_count = U32Incr(@)]]])

\* Lines 162-187: the caller's windows are rolled and tested, and on
\* success counted.
CheckAndIncrementClient(s, name, ins, cs, v) ==
    IF ~v.ok
    THEN [state  |-> [s EXCEPT !.client_state = [ins EXCEPT ![name] = cs]],
          result |-> v]
    ELSE Admitted([s EXCEPT !.client_state =
                      [ins EXCEPT ![name] =
                          [cs EXCEPT !.hourly_count = U32Incr(@),
                                     !.daily_count = U32Incr(@)]]])

\* Lines 154-161: the caller's entry, made on first use.
CheckAndIncrementEntry(s, name, ins) ==
    CheckAndIncrementClient(s, name, ins,
        ClientRateLimitStateUpdate(ins[name], now),
        ClientVerdict(ClientRateLimitStateUpdate(ins[name], now), name,
                      client_limits[name]))

\* Lines 145-198, after the roll of the global windows.
CheckAndIncrementRolled(s, c, v) ==
    IF ~v.ok THEN [state |-> s, result |-> v]
    ELSE IF IsConfigured(c)
         THEN CheckAndIncrementEntry(s, c[1],
                                     EntryOrInsert(s.client_state, c[1], now))
         ELSE Admitted(s)

\* Mutant: the rate limiter of the alert handler is a copy with counters of
\* its own, which nothing else reads or writes.
CheckAndIncrementOwnCounters(c) ==
    IF c = Some(AlertmanagerClient)
    THEN [state  |-> state,
          result |-> CheckAndIncrementRolled(
                         [state EXCEPT !.hourly_count = 0, !.daily_count = 0],
                         c,
                         GlobalVerdict([state EXCEPT !.hourly_count = 0,
                                                     !.daily_count = 0])).result]
    ELSE CheckAndIncrementRolled(RateLimitStateUpdate(state, now), c,
                                 GlobalVerdict(RateLimitStateUpdate(state, now)))

\* check_and_increment(c) from line 142 to its return, as the one step it
\* is for every other thread: the mutex taken at line 141 is held until the
\* function returns, and nothing in between waits.  It yields the new state
\* and the result.
CheckAndIncrement(c) ==
    CheckAndIncrementRolled(RateLimitStateUpdate(state, now), c,
                            GlobalVerdict(RateLimitStateUpdate(state, now)))

\* A task that has not been handed a request.
NoTask ==
    [handler |-> "none", at |-> "idle", to |-> <<>>, message |-> <<>>,
     client |-> None, params |-> None, session |-> None,
     calls |-> <<>>, response |-> None]

\* Err((status, format!(fmt, e)))
ErrResponse(status, fmt, args) ==
    [status |-> status, fmt |-> fmt, args |-> args]

\* Ok(Json(json!({"status": "success", key: value})))
OkResponse(key, value) ==
    [status |-> "OK", json |-> [status |-> "success", key |-> key,
                                value |-> value]]

\* The handler returns response.
Respond(task, response) ==
    [task EXCEPT !.at = "done", !.response = Some(response)]

\* counter!(name, label).increment(1)
CounterIncrement(cs, key) ==
    [k \in DOMAIN cs \cup {key} |->
        IF k # key THEN cs[k]
        ELSE IF key \in DOMAIN cs THEN cs[key] + 1 ELSE 1]

\* gauge!(name).set(value)
GaugeSet(cs, key, value) ==
    [k \in DOMAIN cs \cup {key} |-> IF k # key THEN cs[k] ELSE value]

\* Lines 342-348: the first four characters of a number that starts with
\* '+', or "unknown".
ExtractCountryCode(phone) ==
    IF phone # <<>> /\ Head(phone) = "+"
    THEN SubSeq(phone, 1, IF Len(phone) < 4 THEN Len(phone) ELSE 4)
    ELSE Unknown

\* Lines 544-546 and 619-621: one message sent, and one to its country.
CountSent(cs, to) ==
    CounterIncrement(CounterIncrement(cs, <<"smser_sms_sent_total", <<>>>>),
                     <<"smser_sms_country_total", ExtractCountryCode(to)>>)

\* send_sms_handler, lines 553-559: the status for a failed send_sms.
SendErrorStatus(e) ==
    IF e.variant = "ModemError" THEN "BAD_REQUEST" ELSE "INTERNAL_SERVER_ERROR"

\* Mutant: every failed alert is the server's fault.
AlertErrorStatusServerFault(e) == "INTERNAL_SERVER_ERROR"

\* alertmanager_handler, lines 628-634.
AlertErrorStatus(e) ==
    IF e.variant = "ModemError" THEN "BAD_REQUEST" ELSE "INTERNAL_SERVER_ERROR"

\* get_sms_handler, lines 698-704.
ListErrorStatus(e) ==
    IF e.variant = "ModemError" THEN "BAD_REQUEST" ELSE "INTERNAL_SERVER_ERROR"

\* Mutant: the result of check_and_increment is not looked at.
SendSmsAfterQuotaAdmitsAll(task, result, cs) ==
    [task |-> [task EXCEPT !.at = "session_entry"], counters |-> cs]

\* send_sms_handler, lines 500-510: a rejection ends the request with the
\* message of the rate limiter.
SendSmsAfterQuota(task, result, cs) ==
    IF result.ok
    THEN [task |-> [task EXCEPT !.at = "session_entry"], counters |-> cs]
    ELSE [task |-> Respond(task, ErrResponse("TOO_MANY_REQUESTS",
                                             "Rate limit exceeded: {}",
                                             <<result.err>>)),
          counters |-> cs]

\* Mutant: a request that got no session is answered as sent.
SendSmsAfterSessionAnswersSent(task, result, cs) ==
    IF result.ok
    THEN [task |-> [task EXCEPT !.at = "send_entry",
                                !.session = Some(result.val)],
          counters |-> cs]
    ELSE [task |-> Respond(task, OkResponse("message",
                                            "SMS sent successfully!")),
          counters |-> cs]

\* send_sms_handler, lines 512-521.
SendSmsAfterSession(task, result, cs) ==
    IF result.ok
    THEN [task |-> [task EXCEPT !.at = "send_entry",
                                !.session = Some(result.val)],
          counters |-> cs]
    ELSE [task |-> Respond(task, ErrResponse("INTERNAL_SERVER_ERROR",
                                             "Failed to get session info: {}",
                                             <<result.err>>)),
          counters |-> cs]

\* Mutant: the message is counted as sent whether send_sms succeeded or not.
SendSmsAfterSendCountsFailures(task, result, cs) ==
    IF result.ok
    THEN [task |-> Respond(task, OkResponse("message",
                                            "SMS sent successfully!")),
          counters |-> CountSent(cs, task.to)]
    ELSE [task |-> Respond(task, ErrResponse(SendErrorStatus(result.err),
                                             "Failed to send SMS: {}",
                                             <<result.err>>)),
          counters |-> CountSent(cs, task.to)]

\* send_sms_handler, lines 523-564.
SendSmsAfterSend(task, result, cs) ==
    IF result.ok
    THEN [task |-> Respond(task, OkResponse("message",
                                            "SMS sent successfully!")),
          counters |-> CountSent(cs, task.to)]
    ELSE [task |-> Respond(task, ErrResponse(SendErrorStatus(result.err),
                                             "Failed to send SMS: {}",
                                             <<result.err>>)),
          counters |-> cs]

\* send_sms_handler: what the handler does with the result of the call op
\* it waited for.
SendSmsHandlerResume(task, op, result, cs) ==
    CASE op = "check_and_increment" -> SendSmsAfterQuota(task, result, cs)
      [] op = "get_session_info"    -> SendSmsAfterSession(task, result, cs)
      [] op = "send_sms"            -> SendSmsAfterSend(task, result, cs)

\* alertmanager_handler, lines 592-599.
AlertAfterQuota(task, result, cs) ==
    IF result.ok
    THEN [task |-> [task EXCEPT !.at = "session_entry"], counters |-> cs]
    ELSE [task |-> Respond(task, ErrResponse("TOO_MANY_REQUESTS",
                                             "Rate limit exceeded: {}",
                                             <<result.err>>)),
          counters |-> cs]

\* alertmanager_handler, lines 601-610.
AlertAfterSession(task, result, cs) ==
    IF result.ok
    THEN [task |-> [task EXCEPT !.at = "send_entry",
                                !.session = Some(result.val)],
          counters |-> cs]
    ELSE [task |-> Respond(task, ErrResponse("INTERNAL_SERVER_ERROR",
                                             "Failed to get session info: {}",
                                             <<result.err>>)),
          counters |-> cs]

\* alertmanager_handler, lines 612-637.
AlertAfterSend(task, result, cs) ==
    IF result.ok
    THEN [task |-> Respond(task, OkResponse("message",
                                            "Alert SMS sent successfully!")),
          counters |-> CountSent(cs, task.to)]
    ELSE [task |-> Respond(task, ErrResponse(AlertErrorStatus(result.err),
                                             "Failed to send alert SMS: {}",
                                             <<result.err>>)),
          counters |-> cs]

\* alertmanager_handler, once the phone number is known.
AlertmanagerHandlerResume(task, op, result, cs) ==
    CASE op = "check_and_increment" -> AlertAfterQuota(task, result, cs)
      [] op = "get_session_info"    -> AlertAfterSession(task, result, cs)
      [] op = "send_sms"            -> AlertAfterSend(task, result, cs)

\* Mutant: a failed get_session_info is classified like a failed
\* get_sms_list: 400 when the device itself refused.
GetSmsAfterSessionClassifies(task, result, cs) ==
    IF result.ok
    THEN [task |-> [task EXCEPT !.at = "list_entry",
                                !.session = Some(result.val)],
          counters |-> cs]
    ELSE [task |-> Respond(task, ErrResponse(ListErrorStatus(result.err),
                                             "Failed to get session info: {}",
                                             <<result.err>>)),
          counters |-> cs]

\* get_sms_handler, lines 670-679.
GetSmsAfterSession(task, result, cs) ==
    IF result.ok
    THEN [task |-> [task EXCEPT !.at = "list_entry",
                                !.session = Some(result.val)],
          counters |-> cs]
    ELSE [task |-> Respond(task, ErrResponse("INTERNAL_SERVER_ERROR",
                                             "Failed to get session info: {}",
                                             <<result.err>>)),
          counters |-> cs]

\* get_sms_handler, lines 689-707.
GetSmsAfterList(task, result, cs) ==
    IF result.ok
    THEN [task |-> Respond(task, OkResponse("messages",
                                            result.val.messages.message)),
          counters |-> GaugeSet(cs, <<"smser_sms_stored", <<>>>>,
                                result.val.count)]
    ELSE [task |-> Respond(task, ErrResponse(ListErrorStatus(result.err),
                                             "Failed to get SMS list: {}",
                                             <<result.err>>)),
          counters |-> cs]

\* get_sms_handler: no check_and_increment is called.
GetSmsHandlerResume(task, op, result, cs) ==
    CASE op = "get_session_info" -> GetSmsAfterSession(task, result, cs)
      [] op = "get_sms_list"     -> GetSmsAfterList(task, result, cs)

\* The handler of the task goes on after the call op returned result.
HandlerResume(task, op, result, cs) ==
    CASE task.handler = "send_sms_handler" ->
            SendSmsHandlerResume(task, op, result, cs)
      [] task.handler = "alertmanager_handler" ->
            AlertmanagerHandlerResume(task, op, result, cs)
      [] task.handler = "get_sms_handler" ->
            GetSmsHandlerResume(task, op, result, cs)

\* The call op of task t returns result to its handler.
Returned(t, op, result) ==
    /\ tasks' = [tasks EXCEPT ![t] =
                    HandlerResume([tasks[t] EXCEPT
                                      !.calls = Append(@, [op |-> op,
                                                           result |-> result])],
                                  op, result, counters).task]
    /\ counters' = HandlerResume(tasks[t], op, result, counters).counters

\* A request of task t on the wire, not yet answered.
TaskRequest(t, method, path, headers, body) ==
    [Request("modem", method, path, headers, body) EXCEPT !.call = t]

\* The request of task t that waits.
Pending(t) ==
    CHOOSE i \in DOMAIN net : net[i].call = t /\ net[i].resp = None

\* POST /send-sms arrives and send_sms_handler is called with the payload.
SendSmsHandler(t, payload) ==
    /\ tasks[t].at = "idle"
    /\ tasks' = [tasks EXCEPT ![t] =
                    [NoTask EXCEPT !.handler = "send_sms_handler",
                                   !.at = "quota",
                                   !.to = payload.to,
                                   !.message = payload.message,
                                   !.client = payload.client]]
    /\ counters' = CounterIncrement(counters,
                       <<"smser_http_requests_total", "/send-sms">>)
    /\ UNCHANGED <<alert_phone_number, server>>
    /\ UNCHANGED ledgerVars
    /\ UNCHANGED modemVars

\* Mutant: the alert is checked against the limits before the phone number
\* is looked at.
AlertmanagerHandlerQuotaFirst(t, payload) ==
    /\ tasks[t].at = "idle"
    /\ tasks' = [tasks EXCEPT ![t] =
                    [NoTask EXCEPT
                        !.handler = "alertmanager_handler",
                        !.at = "quota",
                        !.to = UnwrapOr(alert_phone_number, <<>>),
                        !.message = FormatAlertMessage(payload),
                        !.client = Some(AlertmanagerClient)]]
    /\ UNCHANGED <<alert_phone_number, counters, server>>
    /\ UNCHANGED ledgerVars
    /\ UNCHANGED modemVars

\* POST /alertmanager arrives: lines 567-590.  Without a phone number the
\* handler returns at once.
AlertmanagerHandler(t, payload) ==
    /\ tasks[t].at = "idle"
    /\ tasks' = [tasks EXCEPT ![t] =
                    IF alert_phone_number = None
                    THEN Respond([NoTask EXCEPT
                                     !.handler = "alertmanager_handler"],
                                 ErrResponse("BAD_REQUEST",
                                     "Alert phone number not configured",
                                     <<>>))
                    ELSE [NoTask EXCEPT
                             !.handler = "alertmanager_handler",
                             !.at = "quota",
                             !.to = alert_phone_number[1],
                             !.message = FormatAlertMessage(payload),
                             !.client = Some(AlertmanagerClient)]]
    /\ counters' = CounterIncrement(counters,
                       <<"smser_http_requests_total", "/alertmanager">>)
    /\ UNCHANGED <<alert_phone_number, server>>
    /\ UNCHANGED ledgerVars
    /\ UNCHANGED modemVars

\* Mutant: get_sms_handler counts the request against the global limits.
GetSmsHandlerCounted(t, params) ==
    /\ tasks[t].at = "idle"
    /\ tasks' = [tasks EXCEPT ![t] =
                    [NoTask EXCEPT !.handler = "get_sms_handler",
                                   !.at = "session_entry",
                                   !.params = Some(params)]]
    /\ state' = CheckAndIncrement(None).state
    /\ UNCHANGED <<hourly_limit, daily_limit, client_limits, mutex, now,
                   ticks, pc, client, log>>
    /\ UNCHANGED <<alert_phone_number, counters, server>>
    /\ UNCHANGED modemVars

\* GET /get-sms arrives: get_sms_handler starts with the session.
GetSmsHandler(t, params) ==
    /\ tasks[t].at = "idle"
    /\ tasks' = [tasks EXCEPT ![t] =
                    [NoTask EXCEPT !.handler = "get_sms_handler",
                                   !.at = "session_entry",
                                   !.params = Some(params)]]
    /\ counters' = CounterIncrement(counters,
                       <<"smser_http_requests_total", "/get-sms">>)
    /\ UNCHANGED <<alert_phone_number, server>>
    /\ UNCHANGED ledgerVars
    /\ UNCHANGED modemVars

\* metrics.rs line 141, called from the handler: the task takes the mutex of
\* the rate limiter when no other task holds it.
HandlerLock(t) ==
    /\ tasks[t].at = "quota"
    /\ MutexFree
    /\ mutex' = t
    /\ UNCHANGED <<hourly_limit, daily_limit, client_limits, state, now,
                   ticks, pc, client, log>>
    /\ UNCHANGED serverVars
    /\ UNCHANGED modemVars

\* Mutant: the guard is kept by the handler after check_and_increment has
\* returned.
HandlerCheckAndIncrementKeepsLock(t) ==
    /\ tasks[t].at = "quota"
    /\ mutex = t
    /\ state' = CheckAndIncrement(tasks[t].client).state
    /\ log' = Append(log, [client |-> tasks[t].client,
                           result |-> CheckAndIncrement(tasks[t].client).result])
    /\ Returned(t, "check_and_increment",
                CheckAndIncrement(tasks[t].client).result)
    /\ UNCHANGED <<hourly_limit, daily_limit, client_limits, mutex, now,
                   ticks, pc, client>>
    /\ UNCHANGED <<alert_phone_number, server>>
    /\ UNCHANGED modemVars

\* Lines 500-510 and 593-599, metrics.rs lines 142-199: with the mutex held
\* check_and_increment runs to its return, where the guard is dropped, and
\* the handler goes on with the result.
HandlerCheckAndIncrement(t) ==
    /\ tasks[t].at = "quota"
    /\ mutex = t
    /\ state' = CheckAndIncrement(tasks[t].client).state
    /\ log' = Append(log, [client |-> tasks[t].client,
                           result |-> CheckAndIncrement(tasks[t].client).result])
    /\ mutex' = NoThread
    /\ Returned(t, "check_and_increment",
                CheckAndIncrement(tasks[t].client).result)
    /\ UNCHANGED <<hourly_limit, daily_limit, client_limits, now, ticks, pc,
                   client>>
    /\ UNCHANGED <<alert_phone_number, server>>
    /\ UNCHANGED modemVars

\* get_session_info is called (lines 512, 601 and 670): the GET is issued.
HandlerSessionRequest(t) ==
    /\ tasks[t].at = "session_entry"
    /\ net' = Append(net, TaskRequest(t, "GET", "/api/webserver/SesTokInfo",
                                      None, None))
    /\ tasks' = [tasks EXCEPT ![t].at = "session_await"]
    /\ UNCHANGED <<margs, mpc, msession, mresult, mout>>
    /\ UNCHANGED <<alert_phone_number, counters, server>>
    /\ UNCHANGED ledgerVars

\* The answer arrives; get_session_info returns to the handler.
HandlerSessionResponse(t, r) ==
    /\ tasks[t].at = "session_await"
    /\ net' = [net EXCEPT ![Pending(t)].resp = Some(r)]
    /\ Returned(t, "get_session_info", ResponseResult(r, "get_session_info"))
    /\ UNCHANGED <<margs, mpc, msession, mresult, mout>>
    /\ UNCHANGED <<alert_phone_number, server>>
    /\ UNCHANGED ledgerVars

\* Mutant: the session another task acquired is reused when there is one.
HandlerSendRequestCached(t) ==
    /\ tasks[t].at = "send_entry"
    /\ \E u \in Threads :
          /\ tasks[u].session # None
          /\ net' = Append(net, TaskRequest(t, "POST", "/api/sms/send-sms",
                               Some(ModemHeaders(tasks[u].session[1][1],
                                                 tasks[u].session[1][2])),
                               Some(SmsRequest(tasks[t].to, tasks[t].message))))
    /\ tasks' = [tasks EXCEPT ![t].at = "send_await"]
    /\ UNCHANGED <<margs, mpc, msession, mresult, mout>>
    /\ UNCHANGED <<alert_phone_number, counters, server>>
    /\ UNCHANGED ledgerVars

\* send_sms is called with dry_run false (lines 523-531 and 612): the POST
\* is issued with the session of this task.
HandlerSendRequest(t) ==
    /\ tasks[t].at = "send_entry"
    /\ net' = Append(net, TaskRequest(t, "POST", "/api/sms/send-sms",
                         Some(ModemHeaders(tasks[t].session[1][1],
                                           tasks[t].session[1][2])),
                         Some(SmsRequest(tasks[t].to, tasks[t].message))))
    /\ tasks' = [tasks EXCEPT ![t].at = "send_await"]
    /\ UNCHANGED <<margs, mpc, msession, mresult, mout>>
    /\ UNCHANGED <<alert_phone_number, counters, server>>
    /\ UNCHANGED ledgerVars

\* Mutant: a send that fails gives its unit back.
HandlerSendResponseRefunds(t, r) ==
    /\ tasks[t].at = "send_await"
    /\ net' = [net EXCEPT ![Pending(t)].resp = Some(r)]
    /\ Returned(t, "send_sms", ResponseResult(r, "send_sms"))
    /\ state' = IF ResponseResult(r, "send_sms").ok THEN state
                ELSE [state EXCEPT !.hourly_count = @ - 1,
                                   !.daily_count = @ - 1]
    /\ UNCHANGED <<hourly_limit, daily_limit, client_limits, mutex, now,
                   ticks, pc, client, log>>
    /\ UNCHANGED <<margs, mpc, msession, mresult, mout>>
    /\ UNCHANGED <<alert_phone_number, server>>

\* The answer arrives; send_sms returns to the handler.
HandlerSendResponse(t, r) ==
    /\ tasks[t].at = "send_await"
    /\ net' = [net EXCEPT ![Pending(t)].resp = Some(r)]
    /\ Returned(t, "send_sms", ResponseResult(r, "send_sms"))
    /\ UNCHANGED <<margs, mpc, msession, mresult, mout>>
    /\ UNCHANGED <<alert_phone_number, server>>
    /\ UNCHANGED ledgerVars

\* Lines 681-689: the SmsListParams of the query.
SmsListParamsOf(params) ==
    [box_type |-> params.box_type, sort_type |-> params.sort_by,
     read_count |-> params.count, ascending |-> params.ascending,
     unread_preferred |-> params.unread_preferred]

\* get_sms_list is called (line 689): the POST is issued.
HandlerListRequest(t) ==
    /\ tasks[t].at = "list_entry"
    /\ net' = Append(net, TaskRequest(t, "POST", "/api/sms/sms-list",
                         Some(ModemHeaders(tasks[t].session[1][1],
                                           tasks[t].session[1][2])),
                         Some(SmsListRequest(SmsListParamsOf(tasks[t].params[1])))))
    /\ tasks' = [tasks EXCEPT ![t].at = "list_await"]
    /\ UNCHANGED <<margs, mpc, msession, mresult, mout>>
    /\ UNCHANGED <<alert_phone_number, counters, server>>
    /\ UNCHANGED ledgerVars

\* The answer arrives; get_sms_list returns to the handler.
HandlerListResponse(t, r) ==
    /\ tasks[t].at = "list_await"
    /\ net' = [net EXCEPT ![Pending(t)].resp = Some(r)]
    /\ Returned(t, "get_sms_list", ResponseResult(r, "get_sms_list"))
    /\ UNCHANGED <<margs, mpc, msession, mresult, mout>>
    /\ UNCHANGED <<alert_phone_number, server>>
    /\ UNCHANGED ledgerVars

\* RateLimitStatus { hourly_usage, hourly_limit, daily_usage, daily_limit }
\* as get_status builds it from the state it has just rolled.
RateLimitStatus(s) ==
    [hourly_usage |-> s.hourly_count, hourly_limit |-> hourly_limit,
     daily_usage |-> s.daily_count, daily_limit |-> daily_limit]

\* get_client_status rolls the windows of every caller that has an entry.
ClientStateRolled(cs) ==
    [n \in DOMAIN cs |-> ClientRateLimitStateUpdate(cs[n], now)]

\* The snapshot of one configured caller: its name, the usage of its rolled
\* windows (0 while it has no entry) and its configured limits.
ClientStatus(cs, name) ==
    [name |-> name,
     hourly_usage |-> IF name \in DOMAIN cs THEN cs[name].hourly_count ELSE 0,
     hourly_limit |-> client_limits[name][1],
     daily_usage |-> IF name \in DOMAIN cs THEN cs[name].daily_count ELSE 0,
     daily_limit |-> client_limits[name][2]]

\* get_client_status: one snapshot for each configured caller.
GetClientStatus(cs) ==
    {ClientStatus(cs, name) : name \in DOMAIN client_limits}

\* GET /status arrives and status_handler is called.
StatusHandler(t) ==
    /\ tasks[t].at = "idle"
    /\ tasks' = [tasks EXCEPT ![t] =
                    [NoTask EXCEPT !.handler = "status_handler",
                                   !.at = "get_status"]]
    /\ counters' = CounterIncrement(counters,
                       <<"smser_http_requests_total", "/status">>)
    /\ UNCHANGED <<alert_phone_number, server>>
    /\ UNCHANGED ledgerVars
    /\ UNCHANGED modemVars

\* Mutant: get_status reports the counts as they stand, without the roll.
StatusHandlerGetStatusStale(t) ==
    /\ tasks[t].at = "get_status"
    /\ tasks' = [tasks EXCEPT
                    ![t].at = "get_client_status",
                    ![t].calls = Append(@, [op |-> "get_status",
                                            result |-> OkVal(RateLimitStatus(state))])]
    /\ UNCHANGED <<alert_phone_number, counters, server>>
    /\ UNCHANGED ledgerVars
    /\ UNCHANGED modemVars

\* Line 357: get_status locks, rolls the global windows and reports them;
\* nothing in it waits, so it is one step for every other task.
StatusHandlerGetStatus(t) ==
    /\ tasks[t].at = "get_status"
    /\ MutexFree
    /\ state' = RateLimitStateUpdate(state, now)
    /\ tasks' = [tasks EXCEPT
                    ![t].at = "get_client_status",
                    ![t].calls = Append(@, [op |-> "get_status",
                                            result |-> OkVal(RateLimitStatus(
                                                RateLimitStateUpdate(state, now)))])]
    /\ UNCHANGED <<hourly_limit, daily_limit, client_limits, mutex, now,
                   ticks, pc, client, log>>
    /\ UNCHANGED <<alert_phone_number, counters, server>>
    /\ UNCHANGED modemVars

\* Line 358: get_client_status rolls the callers' windows and reports them;
\* the handler then renders the page (lines 359-479).
StatusHandlerGetClientStatus(t) ==
    /\ tasks[t].at = "get_client_status"
    /\ MutexFree
    /\ state' = [state EXCEPT !.client_state = ClientStateRolled(@)]
    /\ tasks' = [tasks EXCEPT
                    ![t].at = "done",
                    ![t].calls = Append(@, [op |-> "get_client_status",
                                            result |-> OkVal(GetClientStatus(
                                                ClientStateRolled(state.client_state)))]),
                    ![t].response = Some([status |-> "OK", html |-> tasks[t].calls[1].result.val])]
    /\ UNCHANGED <<hourly_limit, daily_limit, client_limits, mutex, now,
                   ticks, pc, client, log>>
    /\ UNCHANGED <<alert_phone_number, counters, server>>
    /\ UNCHANGED modemVars

\* start_server serves, over TLS or plainly (line 163), and no shutdown
\* signal was sent.
Serving(tls) == [at |-> "serving", tls |-> tls, signal |-> FALSE]

\* The server as start_server leaves it: a rate limiter just built, the
\* alert phone number configured or not, and no request yet; it serves
\* plainly (the handlers do not read the mode).
InitServer ==
    /\ ModemIdle
    /\ \E l \in ServerLimits : hourly_limit = l[1] /\ daily_limit = l[2]
    /\ client_limits \in ServerClientLimits
    /\ state = [hourly_count |-> 0, daily_count |-> 0,
                last_reset_hour |-> 0, last_reset_day |-> 0,
                client_state |-> <<>>]
    /\ mutex = NoThread
    /\ now = 0
    /\ ticks = 0
    /\ pc = [t \in Threads |-> "idle"]
    /\ client = [t \in Threads |-> None]
    /\ log = <<>>
    /\ alert_phone_number \in {None, Some(AlertPhone)}
    /\ tasks = [t \in Threads |-> NoTask]
    /\ counters = [k \in {} |-> 0]
    /\ server = Serving(FALSE)

\* A day passes while the server runs.
ServerTick(d) ==
    /\ ticks < ServerMaxTicks
    /\ Tick(d)

NextServer ==
    \/ \E t \in Threads, payload \in SendSmsRequests : SendSmsHandler(t, payload)
    \/ \E t \in Threads, payload \in Webhooks : AlertmanagerHandler(t, payload)
    \/ \E t \in Threads, params \in GetSmsRequests : GetSmsHandler(t, params)
    \/ \E t \in Threads : HandlerLock(t)
    \/ \E t \in Threads : HandlerCheckAndIncrement(t)
    \/ \E t \in Threads : HandlerSessionRequest(t)
    \/ \E t \in Threads, r \in ServerAnswers("get_session_info") :
          HandlerSessionResponse(t, r)
    \/ \E t \in Threads : HandlerSendRequest(t)
    \/ \E t \in Threads, r \in ServerAnswers("send_sms") :
          HandlerSendResponse(t, r)
    \/ \E t \in Threads : HandlerListRequest(t)
    \/ \E t \in Threads, r \in ServerAnswers("get_sms_list") :
          HandlerListResponse(t, r)
    \/ \E t \in Threads : StatusHandler(t)
    \/ \E t \in Threads : StatusHandlerGetStatus(t)
    \/ \E t \in Threads : StatusHandlerGetClientStatus(t)
    \/ ServerTick(DaySecs)

SpecServer == InitServer /\ [][NextServer]_vars

(***************************************************************************)
(* Properties of the server.                                               *)
(***************************************************************************)
\* Task t has issued a request to the modem.
HasRequest(t) == \E i \in DOMAIN net : net[i].call = t

\* The first call of task t has returned an error.
FirstCallFailed(t) == tasks[t].calls # <<>> /\ ~tasks[t].calls[1].result.ok

\* C13: in send_sms_handler the quota check comes before every device call:
\* a request to the modem is issued for a send only after check_and_increment
\* returned Ok to it, and when check_and_increment returned an error the
\* handler has answered 429 with the rate limiter's message, as the rate
\* limiter returned it for this client, and has issued no request at all.
C13_QuotaBeforeDevice ==
    \A t \in Threads :
        tasks[t].handler = "send_sms_handler" =>
            /\ HasRequest(t) =>
                   /\ tasks[t].calls # <<>>
                   /\ tasks[t].calls[1].op = "check_and_increment"
                   /\ tasks[t].calls[1].result.ok
            /\ FirstCallFailed(t) =>
                   /\ tasks[t].calls[1].op = "check_and_increment"
                   /\ tasks[t].at = "done"
                   /\ tasks[t].response =
                          Some(ErrResponse("TOO_MANY_REQUESTS",
                                           "Rate limit exceeded: {}",
                                           <<tasks[t].calls[1].result.err>>))
                   /\ \E i \in DOMAIN log :
                          log[i] = [client |-> tasks[t].client,
                                    result |-> tasks[t].calls[1].result]
                   /\ ~HasRequest(t)

\* One send was rejected by the rate limiter while another, admitted, has
\* its POST on the wire.
C13_Witness ==
    \E t \in Threads, u \in Threads :
        /\ tasks[t].handler = "send_sms_handler"
        /\ tasks[u].handler = "send_sms_handler"
        /\ FirstCallFailed(t)
        /\ tasks[t].at = "done"
        /\ tasks[u].at = "send_await"

\* The device calls of the handlers.
DeviceOps == {"get_session_info", "send_sms", "get_sms_list"}

\* The last call of task t was a device call and it failed.
DeviceCallFailed(t) ==
    /\ tasks[t].calls # <<>>
    /\ tasks[t].calls[Len(tasks[t].calls)].op \in DeviceOps
    /\ ~tasks[t].calls[Len(tasks[t].calls)].result.ok

\* The error the last call of task t returned.
LastError(t) == tasks[t].calls[Len(tasks[t].calls)].result.err

\* C14: in send, list and alert-forward, when a device call made after
\* admission (get_session_info, send_sms or get_sms_list) fails, the handler
\* answers 400 if the error is the device's own (ModemError) and 500 for
\* every other error.
C14_DeviceFaultIsClientFault ==
    \A t \in Threads :
        DeviceCallFailed(t) =>
            /\ tasks[t].at = "done"
            /\ tasks[t].response[1].status =
                   IF LastError(t).variant = "ModemError"
                   THEN "BAD_REQUEST"
                   ELSE "INTERNAL_SERVER_ERROR"

\* Task t takes a step of get_sms_handler.
GetSmsStep(t) ==
    /\ tasks'[t] # tasks[t]
    /\ tasks'[t].handler = "get_sms_handler"

\* C15: get_sms_handler applies no quota check: no step of it changes a
\* count or a window start of the rate limiter or has check_and_increment
\* return, it never calls check_and_increment and never answers 429, so it
\* goes on whatever the counts are.
C15_ListNoQuota ==
    [][\A t \in Threads :
          GetSmsStep(t) =>
              /\ state' = state
              /\ log' = log
              /\ \A i \in DOMAIN tasks'[t].calls :
                     tasks'[t].calls[i].op # "check_and_increment"
              /\ tasks'[t].response # None =>
                     tasks'[t].response[1].status # "TOO_MANY_REQUESTS"]_vars

\* A list was answered with the messages while the hourly limit was
\* reached.
C15_Witness ==
    \E t \in Threads :
        /\ tasks[t].handler = "get_sms_handler"
        /\ tasks[t].at = "done"
        /\ tasks[t].response[1].status = "OK"
        /\ LimitReached(state.hourly_count, hourly_limit)

\* Task t takes a step of alertmanager_handler while no phone number is
\* configured.
AlertStepNoPhone(t) ==
    /\ alert_phone_number = None
    /\ tasks'[t] # tasks[t]
    /\ tasks'[t].handler = "alertmanager_handler"

\* C16: with no alert phone number configured, alertmanager_handler answers
\* at once with the configuration fault (400, "Alert phone number not
\* configured"): in the step that receives the request, without calling
\* check_and_increment (no count changes, nothing is logged) and without a
\* request to the modem.
C16_AlertNoRecipient ==
    [][\A t \in Threads :
          AlertStepNoPhone(t) =>
              /\ tasks[t].at = "idle"
              /\ tasks'[t].at = "done"
              /\ tasks'[t].response =
                     Some(ErrResponse("BAD_REQUEST",
                                      "Alert phone number not configured",
                                      <<>>))
              /\ tasks'[t].calls = <<>>
              /\ state' = state
              /\ log' = log
              /\ net' = net]_vars

\* An alert was refused for want of a phone number while a send of another
\* task had been admitted.
C16_Witness ==
    \E t \in Threads, u \in Threads :
        /\ alert_phone_number = None
        /\ tasks[t].handler = "alertmanager_handler"
        /\ tasks[t].at = "done"
        /\ tasks[u].handler = "send_sms_handler"
        /\ tasks[u].at = "session_entry"

\* The status task t has answered with, if it has.
StatusOf(t) ==
    IF tasks[t].response = None THEN None
    ELSE Some(tasks[t].response[1].status)

\* What the modem sees of request q apart from the text of the message:
\* method, path, headers, recipients and what it answered.
WireOf(q) ==
    [method |-> q.method, path |-> q.path, headers |-> q.headers,
     phones |-> IF q.body = None THEN None ELSE Some(q.body[1].Phones),
     resp |-> q.resp]

\* The requests of task t, in order, as the modem sees them.
Wire(t) ==
    LET mine == SelectSeq(net, LAMBDA q : q.call = t)
    IN  [i \in DOMAIN mine |-> WireOf(mine[i])]

\* C17: with a phone number configured, alertmanager_handler behaves like
\* send_sms_handler for that recipient: it sends to the configured number
\* under the client name "alertmanager", its quota check is logged for that
\* client, and for the same results of the same calls it holds the same
\* session, answers with the same status and has issued the same requests
\* as a send to that number by that client.
C17_AlertLikeSend ==
    \A t \in Threads :
        (tasks[t].handler = "alertmanager_handler"
             /\ alert_phone_number # None) =>
            /\ tasks[t].client = Some(AlertmanagerClient)
            /\ tasks[t].to = alert_phone_number[1]
            /\ tasks[t].calls # <<>> =>
                   /\ tasks[t].calls[1].op = "check_and_increment"
                   /\ \E i \in DOMAIN log :
                          log[i] = [client |-> Some(AlertmanagerClient),
                                    result |-> tasks[t].calls[1].result]
            /\ \A u \in Threads :
                   (/\ tasks[u].handler = "send_sms_handler"
                    /\ tasks[u].client = tasks[t].client
                    /\ tasks[u].to = tasks[t].to
                    /\ tasks[u].calls = tasks[t].calls) =>
                       /\ tasks[u].session = tasks[t].session
                       /\ StatusOf(u) = StatusOf(t)
                       /\ tasks[u].at = tasks[t].at => Wire(u) = Wire(t)

\* An alert and a send to the same number by the same client were both
\* admitted, both got a session, and both had their POST refused by the
\* device.
C17_Witness ==
    \E t \in Threads, u \in Threads :
        /\ tasks[t].handler = "alertmanager_handler"
        /\ tasks[u].handler = "send_sms_handler"
        /\ tasks[u].client = tasks[t].client
        /\ tasks[u].to = tasks[t].to
        /\ tasks[u].calls = tasks[t].calls
        /\ Len(tasks[t].calls) = 3
        /\ StatusOf(t) = Some("BAD_REQUEST")

\* check_and_increment returns Ok to task t in this step.
AdmittedStep(t) ==
    /\ tasks[t].calls = <<>>
    /\ tasks'[t].calls # <<>>
    /\ tasks'[t].calls[1].op = "check_and_increment"
    /\ tasks'[t].calls[1].result.ok

\* A device call returns to task t in this step.
DeviceReturnStep(t) ==
    /\ Len(tasks'[t].calls) = Len(tasks[t].calls) + 1
    /\ tasks'[t].calls[Len(tasks'[t].calls)].op \in DeviceOps

\* A count goes down in this step only by the roll of its window: the
\* window is started anew at the present time and the count is 0, or 1 when
\* the call that rolled it went on to admit its request.
OnlyRolledBack(count, start, count2, start2) ==
    count2 < count => (count2 \in {0, 1} /\ start2 = now /\ start2 # start)

\* C18: a granted quota unit stays consumed whatever the device does: the
\* step that admits a request counts it in both global windows, after the
\* roll; the steps in which its device calls return, with success or with
\* any error, leave the rate limiter's state as it is; and in no step does a
\* global or client count go down other than by the roll of its window.
C18_NoRefund ==
    [][/\ \A t \in Threads :
              /\ AdmittedStep(t) =>
                     /\ state'.hourly_count =
                            RateLimitStateUpdate(state, now).hourly_count + 1
                     /\ state'.daily_count =
                            RateLimitStateUpdate(state, now).daily_count + 1
              /\ DeviceReturnStep(t) => state' = state
       /\ OnlyRolledBack(state.hourly_count, state.last_reset_hour,
                         state'.hourly_count, state'.last_reset_hour)
       /\ OnlyRolledBack(state.daily_count, state.last_reset_day,
                         state'.daily_count, state'.last_reset_day)
       /\ \A n \in DOMAIN state.client_state :
              /\ n \in DOMAIN state'.client_state
              /\ OnlyRolledBack(state.client_state[n].hourly_count,
                                state.client_state[n].last_reset_hour,
                                state'.client_state[n].hourly_count,
                                state'.client_state[n].last_reset_hour)
              /\ OnlyRolledBack(state.client_state[n].daily_count,
                                state.client_state[n].last_reset_day,
                                state'.client_state[n].daily_count,
                                state'.client_state[n].last_reset_day)]_vars

\* A send was admitted and then failed at the device, and the unit it was
\* granted is still counted, for the client too.
C18_Witness ==
    \E t \in Threads :
        /\ tasks[t].handler = "send_sms_handler"
        /\ Len(tasks[t].calls) = 3
        /\ ~tasks[t].calls[3].result.ok
        /\ now = 0
        /\ state.hourly_count = 1
        /\ state.daily_count = 1
        /\ AlertmanagerClient \in DOMAIN state.client_state
        /\ state.client_state[AlertmanagerClient].hourly_count = 1

(***************************************************************************)
(* Further properties of the rate limiter.                                 *)
(***************************************************************************)
\* The error msg, returned to caller when the state was s, names a scope,
\* a period and a ceiling, and the count of that scope and period in s had
\* reached that ceiling.
C19_NamesReachedLimit(caller, msg, s) ==
    \/ /\ msg = [fmt |-> "Hourly limit of {} reached", client |-> None,
                 limit |-> hourly_limit]
       /\ s.hourly_count >= hourly_limit
    \/ /\ msg = [fmt |-> "Daily limit of {} reached", client |-> None,
                 limit |-> daily_limit]
       /\ s.daily_count >= daily_limit
    \/ /\ caller # None
       /\ caller[1] \in DOMAIN client_limits
       /\ caller[1] \in DOMAIN s.client_state
       /\ \/ /\ msg = [fmt |-> "Client '{}' hourly limit of {} reached",
                       client |-> caller,
                       limit |-> client_limits[caller[1]][1]]
             /\ s.client_state[caller[1]].hourly_count
                    >= client_limits[caller[1]][1]
          \/ /\ msg = [fmt |-> "Client '{}' daily limit of {} reached",
                       client |-> caller,
                       limit |-> client_limits[caller[1]][2]]
             /\ s.client_state[caller[1]].daily_count
                    >= client_limits[caller[1]][2]

\* C19: every error check_and_increment returns says which scope (global,
\* or the caller by name), which period (hourly or daily) and which ceiling
\* was reached, and the count of that scope and period had reached that
\* ceiling in the state the check was made in (the state the call leaves,
\* the mutex being held from the check to the return).
C19_FailureNamesLimit ==
    [][log' # log =>
          \/ log'[Len(log')].result.ok
          \/ C19_NamesReachedLimit(log'[Len(log')].client,
                                   log'[Len(log')].result.err, state')]_vars

\* A caller was refused for its own daily limit, and a later request for
\* the global daily limit.
C19_Witness ==
    \E i \in DOMAIN log, k \in DOMAIN log :
        /\ i < k
        /\ ~log[i].result.ok /\ ~log[k].result.ok
        /\ log[i].result.err.fmt = "Client '{}' daily limit of {} reached"
        /\ log[k].result.err.fmt = "Daily limit of {} reached"

\* The caller c has no limits of its own: no name, or a name that is not
\* in client_limits.
C20_Unconfigured(c) == c = None \/ c[1] \notin DOMAIN client_limits

\* C20: counts of a caller exist only for the names in client_limits: the
\* names with an entry in client_state are always among them, and a call
\* for a caller without a name or with a name that is not configured runs
\* only the global checks and increments: it never comes to the client
\* checks, leaves client_state as it is, and fails, if it fails, with a
\* global message.
C20_ClientStateOnlyConfigured ==
    [][/\ DOMAIN state'.client_state \subseteq DOMAIN client_limits
       /\ \A t \in Threads :
              (C20_Unconfigured(client[t]) /\ pc[t] # "idle"
                   /\ pc'[t] # pc[t]) =>
                  /\ pc'[t] # "client"
                  /\ state'.client_state = state.client_state
                  /\ (log' # log /\ ~log'[Len(log')].result.ok) =>
                         log'[Len(log')].result.err.client = None]_vars

\* With an entry for the configured caller in place, a caller that is not
\* configured was admitted and another one without a name refused.
C20_Witness ==
    \E i \in DOMAIN log, j \in DOMAIN log :
        /\ DOMAIN state.client_state = DOMAIN client_limits
        /\ log[i].client = Some("unknown_client")
        /\ log[i].result.ok
        /\ log[j].client = None
        /\ ~log[j].result.ok

(***************************************************************************)
(* Status reads.                                                           *)
(***************************************************************************)

\* The last result a call returned to task t in the state tasks2.
LastVal(tasks2, t) == tasks2[t].calls[Len(tasks2[t].calls)].result.val

\* The report r of get_status read the state s and left s2: the ceilings are
\* the configured ones, the usage is the count of the window, or 0 when the
\* window's length has elapsed, and no count has grown.
C21_GlobalRead(r, s, s2) ==
    /\ r.hourly_limit = hourly_limit
    /\ r.daily_limit = daily_limit
    /\ r.hourly_usage =
           IF now - s.last_reset_hour >= 3600 THEN 0 ELSE s.hourly_count
    /\ r.daily_usage =
           IF now - s.last_reset_day >= 86400 THEN 0 ELSE s.daily_count
    /\ s2.hourly_count = r.hourly_usage
    /\ s2.daily_count = r.daily_usage
    /\ s2.client_state = s.client_state
    /\ (\A i \in DOMAIN log : ~log[i].result.ok) =>
           (r.hourly_usage = 0 /\ r.daily_usage = 0)

\* The snapshot r of the configured caller name, read from the callers'
\* state cs and leaving cs2.
C21_ClientRead(r, name, cs, cs2) ==
    /\ r.hourly_limit = client_limits[name][1]
    /\ r.daily_limit = client_limits[name][2]
    /\ IF name \notin DOMAIN cs
       THEN r.hourly_usage = 0 /\ r.daily_usage = 0 /\ name \notin DOMAIN cs2
       ELSE /\ r.hourly_usage =
                   IF now - cs[name].last_reset_hour >= 3600 THEN 0
                   ELSE cs[name].hourly_count
            /\ r.daily_usage =
                   IF now - cs[name].last_reset_day >= 86400 THEN 0
                   ELSE cs[name].daily_count
            /\ cs2[name].hourly_count = r.hourly_usage
            /\ cs2[name].daily_count = r.daily_usage

\* The report rs of get_client_status read the state s and left s2: one
\* snapshot for each configured caller, and the global counts untouched.
C21_ClientsRead(rs, s, s2) ==
    /\ \A name \in DOMAIN client_limits :
          /\ Cardinality({r \in rs : r.name = name}) = 1
          /\ \A r \in rs : r.name = name =>
                C21_ClientRead(r, name, s.client_state, s2.client_state)
    /\ \A r \in rs : r.name \in DOMAIN client_limits
    /\ s2.hourly_count = s.hourly_count
    /\ s2.daily_count = s.daily_count

\* C21: get_status and get_client_status never increment a count; they roll
\* the windows they report before reporting, so the usage reported for a
\* window whose length has elapsed is 0; they report the configured
\* ceilings; and on a ledger that admitted nothing every usage is 0.
C21_StatusReadOnly ==
    [][\A t \in Threads :
          /\ (tasks[t].at = "get_status" /\ tasks'[t].at # "get_status") =>
                C21_GlobalRead(LastVal(tasks', t), state, state')
          /\ (tasks[t].at = "get_client_status"
                  /\ tasks'[t].at # "get_client_status") =>
                C21_ClientsRead(LastVal(tasks', t), state, state')]_vars

\* Witness: after a single call of check_and_increment, which admitted the
\* configured caller, a day passed and the status page was read: both reads
\* report 0 for windows that had counted the admission.
C21_Witness ==
    \E t \in Threads :
        /\ tasks[t].handler = "status_handler"
        /\ tasks[t].at = "done"
        /\ Len(log) = 1
        /\ log[1].result.ok
        /\ log[1].client = Some(AlertmanagerClient)
        /\ AlertmanagerClient \in DOMAIN client_limits
        /\ now >= 86400
        /\ tasks[t].calls[1].result.val.hourly_usage = 0
        /\ tasks[t].calls[1].result.val.daily_usage = 0
        /\ \E r \in tasks[t].calls[2].result.val :
              r.hourly_usage = 0 /\ r.daily_usage = 0
        /\ state.client_state[AlertmanagerClient].last_reset_day = now
        /\ state.last_reset_day = now

(***************************************************************************)
(* Sessions.                                                               *)
(***************************************************************************)

\* The requests of task t for the session, answered, that are on the wire
\* before request i.
SessionGetsBefore(t, i) ==
    {j \in 1..(i - 1) :
        /\ net[j].call = t
        /\ net[j].method = "GET"
        /\ net[j].path = "/api/webserver/SesTokInfo"
        /\ net[j].resp # None}

\* The body b carries the session whose id and token the headers h name.
C22_SessionOfBody(h, b) ==
    \E id \in {Abc123, Tok} :
        /\ b = <<Open("response"), Open("SesInfo"), Text(SessionPrefix \o id),
                 Close("SesInfo"), Open("TokInfo"), Text(h.RequestVerificationToken),
                 Close("TokInfo"), Close("response")>>
        /\ h.Cookie = SessionPrefix \o id

\* C22: no session is cached or reused.  Every POST to the device is
\* preceded by exactly one GET of the session made by the same operation,
\* that GET was answered with a session, and the POST carries the id and the
\* token of that answer; no operation issues more than one POST.
C22_OwnSession ==
    \A i \in DOMAIN net :
        net[i].method = "POST" =>
            /\ Cardinality(SessionGetsBefore(net[i].call, i)) = 1
            /\ \A j \in SessionGetsBefore(net[i].call, i) :
                  /\ net[j].resp[1].kind = "text"
                  /\ C22_SessionOfBody(net[i].headers[1], net[j].resp[1].text)
            /\ \A k \in DOMAIN net :
                  (net[k].method = "POST" /\ net[k].call = net[i].call) => k = i

\* Witness: two operations each acquired a session, the device gave them
\* different ones, and each sent its POST under its own while the other's
\* was known to the server.
C22_Witness ==
    \E i, k \in DOMAIN net :
        /\ net[i].method = "POST"
        /\ net[k].method = "POST"
        /\ net[i].call # net[k].call
        /\ net[i].headers[1].Cookie = SessionPrefix \o Abc123
        /\ net[k].headers[1].Cookie = SessionPrefix \o Tok
        /\ \E j \in SessionGetsBefore(net[k].call, i) : j < i
        /\ \E j \in SessionGetsBefore(net[i].call, k) : j < k

(***************************************************************************)
(* The list of messages.                                                   *)
(***************************************************************************)
SmsListPath == "/api/sms/sms-list"

\* The body is a response element with a Count that holds no element named
\* name.
C23_ListWithout(body, name) ==
    /\ Len(body) >= 5
    /\ SubSeq(body, 1, 2) = <<Open("response"), Open("Count")>>
    /\ body[Len(body)] = Close("response")
    /\ \A p \in DOMAIN body : body[p] # Open(name)

\* The places of body where a Message element opens.
C23_MessagesIn(body) == {p \in DOMAIN body : body[p] = Open("Message")}

\* The place of the k-th Message element of body.
C23_Place(body, k) ==
    CHOOSE p \in C23_MessagesIn(body) :
        Cardinality({q \in C23_MessagesIn(body) : q <= p}) = k

\* The original claim: a list response without the Messages element is a
\* success with no message.
C23_AbsentListIsEmpty ==
    \A i \in BodiesAt(SmsListPath) :
        C23_ListWithout(net[i].resp[1].text, "Messages") =>
            /\ mresult[net[i].call].result.ok
            /\ mresult[net[i].call].result.val.messages.message = <<>>

\* C23, amended: a list response whose Messages element holds no Message is
\* a success with an empty sequence, while a response without the Messages
\* element is an error; and the messages of a success are those of the body
\* in the body's order.
C23_EmptyListIsEmpty ==
    \A i \in BodiesAt(SmsListPath) :
        /\ (/\ C23_ListWithout(net[i].resp[1].text, "Message")
            /\ ~C23_ListWithout(net[i].resp[1].text, "Messages"))
           => /\ mresult[net[i].call].result.ok
              /\ mresult[net[i].call].result.val.messages.message = <<>>
        /\ C23_ListWithout(net[i].resp[1].text, "Messages")
           => /\ ~mresult[net[i].call].result.ok
              /\ mresult[net[i].call].result.err.variant = "Other"
        /\ mresult[net[i].call].result.ok
           => /\ Len(mresult[net[i].call].result.val.messages.message)
                    = Cardinality(C23_MessagesIn(net[i].resp[1].text))
              /\ \A k \in DOMAIN mresult[net[i].call].result.val.messages.message :
                    mresult[net[i].call].result.val.messages.message[k].content
                        = net[i].resp[1].text[C23_Place(net[i].resp[1].text, k) + 11].s

\* Witness: the device answered the list request with an empty Messages
\* element and get_sms_list returned a success without messages.
C23_Witness ==
    \E i \in BodiesAt(SmsListPath) :
        /\ net[i].resp[1].text = <<Open("response"), Open("Count"), Text(<<"0">>),
                                   Close("Count"), Open("Messages"),
                                   Close("Messages"), Close("response")>>
        /\ mresult[net[i].call].result.ok
        /\ mresult[net[i].call].result.val.count = 0
        /\ mresult[net[i].call].result.val.messages.message = <<>>

(***************************************************************************)
(* The rate limiter with two configured callers, each call of              *)
(* check_and_increment one step.                                           *)
(***************************************************************************)
\* The callers with limits of their own, and the arguments of the calls.
LedgerNames == {AlertmanagerClient, TestClient}
LedgerArgs == {None, Some(UnknownClient)} \cup {Some(n) : n \in LedgerNames}

\* The limits of a configured caller: the hour or the day the tighter one.
LedgerClientLimits == {<<1, MaxLimit>>, <<MaxLimit, 1>>}

\* RateLimiter::new with two client limits.
InitLedger ==
    /\ ModemIdle
    /\ ServerIdle
    /\ hourly_limit \in Limits
    /\ daily_limit \in Limits
    /\ client_limits \in [LedgerNames -> LedgerClientLimits]
    /\ state = [hourly_count |-> 0, daily_count |-> 0,
                last_reset_hour |-> 0, last_reset_day |-> 0,
                client_state |-> <<>>]
    /\ mutex = NoThread
    /\ now = 0
    /\ ticks = 0
    /\ pc = [t \in Threads |-> "idle"]
    /\ client = [t \in Threads |-> None]
    /\ log = <<>>

\* check_and_increment(c), lines 140-199, from lock to return.
CheckAndIncrementCall(c) ==
    /\ Len(log) < MaxCalls
    /\ state' = CheckAndIncrement(c).state
    /\ log' = Append(log, [client |-> c, result |-> CheckAndIncrement(c).result])
    /\ UNCHANGED <<hourly_limit, daily_limit, client_limits, mutex, now,
                   ticks, pc, client>>
    /\ UNCHANGED modemVars
    /\ UNCHANGED serverVars

NextLedger ==
    \/ \E c \in LedgerArgs : CheckAndIncrementCall(c)
    \/ GetStatus
    \/ \E d \in TickSteps : Tick(d)

SpecLedger == InitLedger /\ [][NextLedger]_vars

\* The count a window holds after the roll: 0 when its length has elapsed
\* since start.
C24_Rolled(count, start, length) == IF now - start >= length THEN 0 ELSE count

\* The step is a call of check_and_increment that returned ok.
C24_AdmissionStep ==
    /\ Len(log') = Len(log) + 1
    /\ log'[Len(log')].result.ok

\* The counts of the entry e2 are those of the entry e, rolled, plus one.
C24_EntryPlusOne(e, e2) ==
    /\ e2.hourly_count = C24_Rolled(e.hourly_count, e.last_reset_hour, 3600) + 1
    /\ e2.daily_count = C24_Rolled(e.daily_count, e.last_reset_day, 86400) + 1

\* C24: an admission adds exactly 1 to the global hourly and the global
\* daily count and, exactly when the caller is configured, 1 to that
\* caller's hourly and daily count; the entry of every other caller, counts
\* and window starts, is as it was.
C24_AdmissionCounts ==
    [][C24_AdmissionStep =>
          /\ C24_EntryPlusOne(state, state')
          /\ \A n \in LedgerNames \cup {UnknownClient} :
                IF log'[Len(log')].client = Some(n) /\ n \in DOMAIN client_limits
                THEN /\ n \in DOMAIN state'.client_state
                     /\ IF n \in DOMAIN state.client_state
                        THEN C24_EntryPlusOne(state.client_state[n],
                                              state'.client_state[n])
                        ELSE /\ state'.client_state[n].hourly_count = 1
                             /\ state'.client_state[n].daily_count = 1
                ELSE /\ n \in DOMAIN state'.client_state
                            <=> n \in DOMAIN state.client_state
                     /\ n \in DOMAIN state.client_state
                            => state'.client_state[n] = state.client_state[n]]_vars

\* Witness: one configured caller was admitted and then the other, in the
\* same windows: two global admissions, one for each caller.
C24_Witness ==
    /\ Len(log) = 2
    /\ log[1] = [client |-> Some(AlertmanagerClient), result |-> Ok]
    /\ log[2] = [client |-> Some(TestClient), result |-> Ok]
    /\ state.hourly_count = 2
    /\ state.daily_count = 2
    /\ state.client_state[AlertmanagerClient].daily_count = 1
    /\ state.client_state[TestClient].daily_count = 1

(***************************************************************************)
(* Rejections.                                                             *)
(***************************************************************************)

\* The window (count2, start2) is the window (count, start) as it was or
\* rolled: a count that changed is 0 and its window starts now.
C25_AsWasOrRolled(count, start, count2, start2) ==
    \/ count2 = count /\ start2 = start
    \/ count2 = 0 /\ start2 = now

\* Both windows of e2 are those of e, as they were or rolled.
C25_WindowsOnlyRolled(e, e2) ==
    /\ C25_AsWasOrRolled(e.hourly_count, e.last_reset_hour,
                         e2.hourly_count, e2.last_reset_hour)
    /\ C25_AsWasOrRolled(e.daily_count, e.last_reset_day,
                         e2.daily_count, e2.last_reset_day)

\* From s to s2 no count changed but by a roll; an entry made has counted
\* nothing.
C25_OnlyRolled(s, s2) ==
    /\ C25_WindowsOnlyRolled(s, s2)
    /\ \A n \in DOMAIN s2.client_state :
          IF n \in DOMAIN s.client_state
          THEN C25_WindowsOnlyRolled(s.client_state[n], s2.client_state[n])
          ELSE /\ s2.client_state[n].hourly_count = 0
               /\ s2.client_state[n].daily_count = 0

\* Thread t returns an error in this step.
C25_Rejected(t) ==
    /\ pc[t] # "idle"
    /\ pc'[t] = "idle"
    /\ ~log'[Len(log')].result.ok

\* C25: a call of check_and_increment that is rejected changes no count
\* (its steps only roll windows); a rejection by the caller's ceiling leaves
\* the global counts alone and a rejection by a global ceiling leaves the
\* callers' counts alone; and a state in which a caller's count holds an
\* admission that the global counts do not yet hold exists only while the
\* admitting thread holds the mutex, and that thread always completes the
\* admission.
C25_RejectionCountsNothing ==
    [][\A t \in Threads :
          /\ C25_Rejected(t) =>
                /\ C25_OnlyRolled(state, state')
                /\ log'[Len(log')].result.err.client # None =>
                      /\ state'.hourly_count = state.hourly_count
                      /\ state'.daily_count = state.daily_count
                /\ log'[Len(log')].result.err.client = None =>
                      state'.client_state = state.client_state
          /\ (pc[t] = "lock" /\ pc'[t] # "lock") => C25_OnlyRolled(state, state')
          /\ (pc[t] # pc'[t] /\ ~C25_OnlyRolled(state, state')) =>
                \/ pc[t] = "client" /\ pc'[t] = "incr" /\ mutex' = t
                \/ /\ pc[t] = "incr"
                   /\ log' = Append(log, [client |-> client[t], result |-> Ok])
          /\ pc'[t] \in {"client", "incr"} => mutex' = t
          /\ (pc[t] = "incr" /\ pc'[t] # "incr") =>
                /\ log' = Append(log, [client |-> client[t], result |-> Ok])
                /\ state'.hourly_count = state.hourly_count + 1
                /\ state'.daily_count = state.daily_count + 1
                /\ mutex' = NoThread]_vars

\* Witness: the configured caller was admitted once, then rejected by the
\* global hourly ceiling and, after the global hour had rolled, by its own;
\* the counts are those of the one admission, the global hour rolled.
C25_Witness ==
    /\ Len(log) = 3
    /\ log[1].result.ok
    /\ log[1].client = Some(TestClient)
    /\ ~log[2].result.ok
    /\ log[2].result.err.client = None
    /\ ~log[3].result.ok
    /\ log[3].result.err.client = Some(TestClient)
    /\ state.hourly_count = 0
    /\ state.daily_count = 1
    /\ state.client_state[TestClient].hourly_count = 1
    /\ state.client_state[TestClient].daily_count = 1

(***************************************************************************)
(* The critical section and the device.                                    *)
(***************************************************************************)

\* Task t waits for the device to answer a request.
AwaitsDevice(t) == tasks[t].at \in {"session_await", "send_await", "list_await"}

\* C26: the mutex of the rate limiter is held only inside
\* check_and_increment: the task that holds it is at its quota check and has
\* issued no request to the device, a task that is about to call or waits
\* for the device does not hold it, and so a task at its quota check is held
\* up by another task only while that one is inside check_and_increment.
C26_LockNotHeldAcrossDevice ==
    \A t \in Threads :
        /\ mutex = t => (tasks[t].at = "quota" /\ ~HasRequest(t))
        /\ AwaitsDevice(t) => mutex # t
        /\ HasRequest(t) =>
              /\ mutex # t
              /\ tasks[t].handler # "get_sms_handler" =>
                    (/\ tasks[t].calls[1].op = "check_and_increment"
                     /\ tasks[t].calls[1].result.ok)
        /\ (tasks[t].at = "quota" /\ mutex \notin {NoThread, t}) =>
              (tasks[mutex].at = "quota" /\ ~AwaitsDevice(mutex))

\* Witness: one task, admitted, waits for the device to answer its POST
\* while another, whose GET of the session is still unanswered too, was
\* admitted after that POST had been issued; and a third party could lock:
\* the mutex is free.
C26_Witness ==
    \E t, u \in Threads :
        /\ t # u
        /\ tasks[t].at = "send_await"
        /\ tasks[u].at = "session_await"
        /\ tasks[t].calls[1].result.ok
        /\ tasks[u].handler = "alertmanager_handler"
        /\ tasks[u].calls[1].op = "check_and_increment"
        /\ tasks[u].calls[1].result.ok
        /\ Len(log) = 2
        /\ MutexFree

(***************************************************************************)
(* One ledger for all handlers.                                            *)
(***************************************************************************)

\* How many calls of check_and_increment, by whichever handler, were
\* admitted so far according to the log l.
C27_Admissions(l) == Cardinality({i \in DOMAIN l : l[i].result.ok})

\* The result r of a check against the global ceilings when n admissions
\* are counted.
C27_GlobalCheck(r, n) ==
    /\ n >= hourly_limit =>
          (~r.ok /\ r.err.fmt = "Hourly limit of {} reached")
    /\ (n < hourly_limit /\ n >= daily_limit) =>
          (~r.ok /\ r.err.fmt = "Daily limit of {} reached")
    /\ r.ok => (n < hourly_limit /\ n < daily_limit)

\* C27: all handlers account against one ledger.  While no window has
\* rolled, the global counts are the number of admissions made through any
\* handler; every check of the global ceilings, by the send or the alert
\* handler, is decided by that number; and every status read reports it.
C27_OneLedger ==
    [][now' = 0 =>
          /\ state'.hourly_count = C27_Admissions(log')
          /\ state'.daily_count = C27_Admissions(log')
          /\ log' # log =>
                C27_GlobalCheck(log'[Len(log')].result, C27_Admissions(log))
          /\ \A t \in Threads :
                (tasks[t].at = "get_status" /\ tasks'[t].at # "get_status") =>
                    /\ LastVal(tasks', t).hourly_usage = C27_Admissions(log)
                    /\ LastVal(tasks', t).daily_usage = C27_Admissions(log)]_vars

\* Witness: the send handler was admitted and used up the global hour, and
\* the alert handler, whose own limits had room, was rejected by the global
\* hourly ceiling.
C27_Witness ==
    \E t, u \in Threads :
        /\ tasks[t].handler = "send_sms_handler"
        /\ tasks[u].handler = "alertmanager_handler"
        /\ Len(log) = 2
        /\ log[1] = [client |-> tasks[t].client, result |-> Ok]
        /\ log[2].client = Some(AlertmanagerClient)
        /\ ~log[2].result.ok
        /\ log[2].result.err.fmt = "Hourly limit of {} reached"
        /\ AlertmanagerClient \in DOMAIN client_limits
        /\ tasks[t].calls[1].result.ok
        /\ tasks[u].at = "done"
        /\ tasks[u].response[1].status = "TOO_MANY_REQUESTS"
        /\ now = 0

(***************************************************************************)
(* A session that could not be acquired.                                   *)
(***************************************************************************)

\* The calls of get_session_info that task t has made and that failed.
FailedSessionCalls(t) ==
    {k \in DOMAIN tasks[t].calls :
        /\ tasks[t].calls[k].op = "get_session_info"
        /\ ~tasks[t].calls[k].result.ok}

\* The POSTs of task t on the wire.
PostsOf(t) == {i \in DOMAIN net : net[i].call = t /\ net[i].method = "POST"}

\* C28: in send, list and alert-forward a failed get_session_info ends the
\* operation with 500 INTERNAL_SERVER_ERROR and the message "Failed to get
\* session info: <the error>", and no POST of the operation is ever on the
\* wire; a POST is on the wire only after a get_session_info of the same
\* operation succeeded.
C28_SessionFailureIsServerFault ==
    \A t \in Threads :
        /\ \A k \in FailedSessionCalls(t) :
              /\ k = Len(tasks[t].calls)
              /\ tasks[t].at = "done"
              /\ tasks[t].response =
                     Some([status |-> "INTERNAL_SERVER_ERROR",
                           fmt |-> "Failed to get session info: {}",
                           args |-> <<tasks[t].calls[k].result.err>>])
              /\ PostsOf(t) = {}
        /\ PostsOf(t) # {} =>
              \E k \in DOMAIN tasks[t].calls :
                  /\ tasks[t].calls[k].op = "get_session_info"
                  /\ tasks[t].calls[k].result.ok
                  /\ tasks[t].session = Some(tasks[t].calls[k].result.val)

\* Witness: the device refused the session with its error envelope to one
\* operation, which ended with 500 and no POST, while the other got its
\* session and issued its POST.
C28_Witness ==
    \E t, u \in Threads :
        /\ FailedSessionCalls(t) # {}
        /\ tasks[t].calls[Len(tasks[t].calls)].result.err.variant = "ModemError"
        /\ tasks[t].response[1].status = "INTERNAL_SERVER_ERROR"
        /\ PostsOf(t) = {}
        /\ PostsOf(u) # {}

(***************************************************************************)
(* A list response that is not a list.                                     *)
(***************************************************************************)

\* C29: when the body of the list response is not an SmsListResponse,
\* get_sms_list reads it as the device's error envelope: a well-formed
\* envelope gives ModemError with exactly its code and message (125003,
\* "Busy"), and only a body that is neither gives Error::Other, which
\* carries the raw body.
C29_ListBodyClassified ==
    \A i \in BodiesAt(SmsListPath) :
        /\ mresult[net[i].call].result.ok
              <=> FromStr(net[i].resp[1].text, "SmsListResponse").ok
        /\ (/\ ~FromStr(net[i].resp[1].text, "SmsListResponse").ok
            /\ FromStr(net[i].resp[1].text, "ModemErrorResponse").ok)
           => mresult[net[i].call].result.err =
                  [variant |-> "ModemError",
                   code |-> FromStr(net[i].resp[1].text,
                                    "ModemErrorResponse").val.code,
                   message |-> FromStr(net[i].resp[1].text,
                                       "ModemErrorResponse").val.message]
        /\ (/\ ~FromStr(net[i].resp[1].text, "SmsListResponse").ok
            /\ ~FromStr(net[i].resp[1].text, "ModemErrorResponse").ok)
           => /\ mresult[net[i].call].result.err.variant = "Other"
              /\ mresult[net[i].call].result.err.fmt
                     = "Failed to get SMS list: {} Error: {}"
              /\ mresult[net[i].call].result.err.args[1] = net[i].resp[1].text
        /\ net[i].resp[1].text = ErrorBody(<<"1", "2", "5", "0", "0", "3">>)
           => mresult[net[i].call].result =
                  Err([variant |-> "ModemError", code |-> 125003,
                       message |-> Busy])
        /\ net[i].resp[1].text = <<Text(<<"o", "o", "p", "s">>)>>
           => mresult[net[i].call].result.err.variant = "Other"

\* Witness: the device answered the list request with the error envelope
\* 125003 "Busy", and get_sms_list returned ModemError 125003 "Busy".
C29_Witness ==
    \E i \in BodiesAt(SmsListPath) :
        /\ net[i].resp[1].text = ErrorBody(<<"1", "2", "5", "0", "0", "3">>)
        /\ mresult[net[i].call].result.err.variant = "ModemError"
        /\ mresult[net[i].call].result.err.code = 125003
        /\ mresult[net[i].call].result.err.message = Busy

(***************************************************************************)
(* The send request.                                                       *)
(***************************************************************************)

\* C30: every send request on the wire has Index -1, exactly one phone
\* entry, an empty service centre, Reserved and Date -1, and a Length that
\* is the number of characters of its content.
C30_SendRequestShape ==
    \A i \in DOMAIN net :
        (net[i].host = "modem" /\ net[i].path = SendSmsPath) =>
            /\ net[i].body[1].Index = -1
            /\ Len(net[i].body[1].Phones) = 1
            /\ net[i].body[1].Sca = <<>>
            /\ net[i].body[1].Reserved = -1
            /\ net[i].body[1].Date = -1
            /\ net[i].body[1].Length = Len(net[i].body[1].Content)

(***************************************************************************)
(* The counters of sent messages.                                          *)
(***************************************************************************)

\* The tasks whose send_sms returned Ok.
SentTasks ==
    {t \in Threads :
        \E k \in DOMAIN tasks[t].calls :
            tasks[t].calls[k].op = "send_sms" /\ tasks[t].calls[k].result.ok}

\* The value of the counter key, 0 while it was never incremented.
CounterValue(key) == IF key \in DOMAIN counters THEN counters[key] ELSE 0

\* The tag of the recipient to: its first four characters when it starts
\* with '+', "unknown" otherwise.
C31_Tag(to) ==
    IF to # <<>> /\ to[1] = "+"
    THEN [i \in 1..(IF Len(to) < 4 THEN Len(to) ELSE 4) |-> to[i]]
    ELSE <<"u", "n", "k", "n", "o", "w", "n">>

\* C31: smser_sms_sent_total is the number of send and alert requests whose
\* send_sms succeeded, and smser_sms_country_total of a tag is the number of
\* those whose recipient has that tag; a request that was rejected, got no
\* session or failed to send is counted nowhere.
C31_SentCounters ==
    /\ CounterValue(<<"smser_sms_sent_total", <<>>>>) = Cardinality(SentTasks)
    /\ \A key \in DOMAIN counters :
          key[1] = "smser_sms_country_total" =>
              /\ \E t \in SentTasks : key[2] = C31_Tag(tasks[t].to)
              /\ counters[key] =
                     Cardinality({t \in SentTasks : C31_Tag(tasks[t].to) = key[2]})
    /\ \A t \in SentTasks :
          <<"smser_sms_country_total", C31_Tag(tasks[t].to)>> \in DOMAIN counters

\* Witness: one request sent a message to +4915 and another to 01: two
\* messages sent, one under "+491" and one under "unknown".
C31_Witness ==
    /\ Cardinality(SentTasks) = 2
    /\ CounterValue(<<"smser_sms_sent_total", <<>>>>) = 2
    /\ CounterValue(<<"smser_sms_country_total", <<"+", "4", "9", "1">>>>) = 1
    /\ CounterValue(<<"smser_sms_country_total",
                      <<"u", "n", "k", "n", "o", "w", "n">>>>) = 1

(***************************************************************************)
(* Shutdown: start_server from the shutdown signal to its return, with     *)
(* list requests in flight.                                                *)
(***************************************************************************)

\* The tasks whose handler has started and not ended.
InFlightTasks == {t \in Threads : tasks[t].at \notin {"idle", "done", "aborted"}}

\* start_server is called with or without a TLS certificate and key.
InitShutdown ==
    /\ ModemIdle
    /\ hourly_limit = MaxLimit
    /\ daily_limit = MaxLimit
    /\ client_limits = <<>>
    /\ state = [hourly_count |-> 0, daily_count |-> 0,
                last_reset_hour |-> 0, last_reset_day |-> 0,
                client_state |-> <<>>]
    /\ mutex = NoThread
    /\ now = 0
    /\ ticks = 0
    /\ pc = [t \in Threads |-> "idle"]
    /\ client = [t \in Threads |-> None]
    /\ log = <<>>
    /\ alert_phone_number = None
    /\ tasks = [t \in Threads |-> NoTask]
    /\ counters = [k \in {} |-> 0]
    /\ server \in {Serving(tls) : tls \in BOOLEAN}

\* The server accepts a connection and calls the handler only while it
\* serves.
ServerAccept(t, params) ==
    /\ server.at = "serving"
    /\ GetSmsHandler(t, params)

\* The owner of the oneshot sender sends the shutdown signal.
SendShutdown ==
    /\ ~server.signal
    /\ server' = [server EXCEPT !.signal = TRUE]
    /\ UNCHANGED <<alert_phone_number, tasks, counters>>
    /\ UNCHANGED ledgerVars
    /\ UNCHANGED modemVars

\* Mutant: only the plain server listens for the signal.
ShutdownSignalPlainOnly ==
    /\ server.signal
    /\ ~server.tls
    /\ server.at = "serving"
    /\ server' = [server EXCEPT !.at = "draining"]
    /\ UNCHANGED <<alert_phone_number, tasks, counters>>
    /\ UNCHANGED ledgerVars
    /\ UNCHANGED modemVars

\* shutdown_signal.await completes: lines 163-167 (graceful_shutdown with
\* 10 s of grace, over TLS) and lines 175-178 (with_graceful_shutdown,
\* plainly).  The server stops accepting.
ShutdownSignal ==
    /\ server.signal
    /\ server.at = "serving"
    /\ server' = [server EXCEPT !.at = "draining"]
    /\ UNCHANGED <<alert_phone_number, tasks, counters>>
    /\ UNCHANGED ledgerVars
    /\ UNCHANGED modemVars

\* Over TLS the 10 s of grace end with requests still in flight: they are
\* dropped and serve returns (lines 166, 169-173).
GraceExpires ==
    /\ server.tls
    /\ server.at = "draining"
    /\ InFlightTasks # {}
    /\ tasks' = [t \in Threads |->
                    IF t \in InFlightTasks THEN [tasks[t] EXCEPT !.at = "aborted"]
                    ELSE tasks[t]]
    /\ server' = [server EXCEPT !.at = "returned"]
    /\ UNCHANGED <<alert_phone_number, counters>>
    /\ UNCHANGED ledgerVars
    /\ UNCHANGED modemVars

\* No request is in flight any more: serve returns, and start_server with
\* it (lines 169-173 and 175-180).
ServeReturns ==
    /\ server.at = "draining"
    /\ InFlightTasks = {}
    /\ server' = [server EXCEPT !.at = "returned"]
    /\ UNCHANGED <<alert_phone_number, tasks, counters>>
    /\ UNCHANGED ledgerVars
    /\ UNCHANGED modemVars

\* The list requests in flight go on as in the server.
ShutdownHandlerStep ==
    \/ \E t \in Threads : HandlerSessionRequest(t)
    \/ \E t \in Threads, r \in ServerAnswers("get_session_info") :
          HandlerSessionResponse(t, r)
    \/ \E t \in Threads : HandlerListRequest(t)
    \/ \E t \in Threads, r \in ServerAnswers("get_sms_list") :
          HandlerListResponse(t, r)

NextShutdown ==
    \/ \E t \in Threads, params \in GetSmsRequests : ServerAccept(t, params)
    \/ ShutdownHandlerStep
    \/ SendShutdown
    \/ ShutdownSignal
    \/ GraceExpires
    \/ ServeReturns

\* The runtime polls every task that can go on, the timer of the grace
\* period fires, and every request to the device ends, with an answer or
\* with the failure of the client's 10 s timeout (modem.rs lines 124, 201, 246).
SpecShutdown ==
    /\ InitShutdown
    /\ [][NextShutdown]_vars
    /\ WF_vars(ShutdownHandlerStep)
    /\ WF_vars(ShutdownSignal)
    /\ WF_vars(ServeReturns)

\* A step of the server after it has stopped serving: no handler starts, a
\* request is dropped only when the grace period of the TLS server ends, and
\* once the server has returned it stays so with nothing in flight.
C32_Draining ==
    /\ \A t \in Threads :
          /\ (server.at # "serving" /\ tasks[t].at = "idle") =>
                tasks'[t].at = "idle"
          /\ (tasks[t].at # "aborted" /\ tasks'[t].at = "aborted") =>
                (server.tls /\ server.at = "draining" /\ server'.at = "returned")
    /\ server'.at = "returned" =>
          \A t \in Threads : tasks'[t].at \in {"idle", "done", "aborted"}
    /\ server.at = "returned" => server'.at = "returned"

C33_RolledStart(start, length) == IF now - start >= length THEN now ELSE start

\* The count of caller n's window after the roll; an entry made by the call
\* has counted nothing.
C33_CallerCount(n, hour) ==
    IF n \notin DOMAIN state.client_state THEN 0
    ELSE IF hour
         THEN C24_Rolled(state.client_state[n].hourly_count,
                         state.client_state[n].last_reset_hour, 3600)
         ELSE C24_Rolled(state.client_state[n].daily_count,
                         state.client_state[n].last_reset_day, 86400)

\* After the step the global windows are the rolled ones.
C33_GlobalRolled ==
    /\ state'.last_reset_hour = C33_RolledStart(state.last_reset_hour, 3600)
    /\ state'.last_reset_day = C33_RolledStart(state.last_reset_day, 86400)
    /\ state'.hourly_count - C24_Rolled(state.hourly_count,
                                        state.last_reset_hour, 3600) \in {0, 1}
    /\ state'.daily_count - C24_Rolled(state.daily_count,
                                       state.last_reset_day, 86400) \in {0, 1}

\* After the step the windows of caller n start where the rolled ones do.
C33_CallerRolled(n) ==
    /\ n \in DOMAIN state'.client_state
    /\ n \in DOMAIN state.client_state =>
          /\ state'.client_state[n].last_reset_hour =
                C33_RolledStart(state.client_state[n].last_reset_hour, 3600)
          /\ state'.client_state[n].last_reset_day =
                C33_RolledStart(state.client_state[n].last_reset_day, 86400)

\* The result r of a call for caller c is the one the rolled counts give:
\* each test on the way to it was made on the rolled count of its window.
C33_TestedRolled(c, r) ==
    LET gh == C24_Rolled(state.hourly_count, state.last_reset_hour, 3600)
        gd == C24_Rolled(state.daily_count, state.last_reset_day, 86400)
        own == c # None /\ c[1] \in DOMAIN client_limits
    IN  /\ C33_GlobalRolled
        /\ (~r.ok /\ r.err.fmt = "Hourly limit of {} reached") =>
              gh >= hourly_limit
        /\ (~r.ok /\ r.err.fmt = "Daily limit of {} reached") =>
              gh < hourly_limit /\ gd >= daily_limit
        /\ (r.ok \/ r.err.client # None) =>
              gh < hourly_limit /\ gd < daily_limit
        /\ (~r.ok /\ r.err.client # None) =>
              /\ r.err.client = c
              /\ own
              /\ C33_CallerRolled(c[1])
              /\ IF r.err.fmt = "Client '{}' hourly limit of {} reached"
                 THEN C33_CallerCount(c[1], TRUE) >= client_limits[c[1]][1]
                 ELSE /\ C33_CallerCount(c[1], TRUE) < client_limits[c[1]][1]
                      /\ C33_CallerCount(c[1], FALSE) >= client_limits[c[1]][2]
        /\ (r.ok /\ own) =>
              /\ C33_CallerRolled(c[1])
              /\ C33_CallerCount(c[1], TRUE) < client_limits[c[1]][1]
              /\ C33_CallerCount(c[1], FALSE) < client_limits[c[1]][2]

\* A step of the ledger: time passing changes no window; a status read
\* leaves, and so reports, the rolled global windows and touches no
\* caller's; a call of check_and_increment tests rolled windows.
C33_Step ==
    /\ now' # now => state' = state
    /\ (now' = now /\ log' = log) =>
          /\ C33_GlobalRolled
          /\ state'.hourly_count = C24_Rolled(state.hourly_count,
                                              state.last_reset_hour, 3600)
          /\ state'.daily_count = C24_Rolled(state.daily_count,
                                             state.last_reset_day, 86400)
          /\ state'.client_state = state.client_state
    /\ log' # log =>
          /\ now' = now
          /\ C33_TestedRolled(log'[Len(log')].client, log'[Len(log')].result)

\* C33: windows are rolled lazily and completely: no window changes while
\* time passes; get_status rolls the global windows it reports before it
\* reports them; check_and_increment rolls the global windows before it
\* tests them and the windows of a configured caller before it tests that
\* caller's ceilings, so every verdict is the one the rolled counts give.
C33_LazyRolls == [][C33_Step]_vars

\* Witness: a caller with an hourly ceiling of 1 under a global hourly
\* ceiling of 1 was admitted, and after the hour was admitted again: both
\* its hourly window and the global one were rolled before the tests.
C33_Witness ==
    /\ hourly_limit = 1
    /\ client_limits[TestClient] = <<1, MaxLimit>>
    /\ Len(log) = 2
    /\ log[1] = [client |-> Some(TestClient), result |-> Ok]
    /\ log[2] = [client |-> Some(TestClient), result |-> Ok]
    /\ state.hourly_count = 1
    /\ state.last_reset_hour = now
    /\ state.client_state[TestClient].hourly_count = 1
    /\ state.client_state[TestClient].last_reset_hour = now
    /\ state.client_state[TestClient].daily_count = 2
    /\ now > 0

(***************************************************************************)
(* The outcome of a send request.                                          *)
(***************************************************************************)

\* The tasks that run send_sms_handler.
SendTasks == {t \in Threads : tasks[t].handler = "send_sms_handler"}

\* The calls the handler of a sent message has made, in order.
C34_CallsOfSuccess == <<"check_and_increment", "get_session_info", "send_sms">>

\* The send request of task t: it has an outcome exactly when its handler
\* has returned; a success comes after the three calls, in order and each
\* ok, with the admission in the ledger and the GET and then the POST of
\* this task answered on the wire; a call that failed is the last one, and
\* the outcome is an error.
C34_Outcome(t) ==
    /\ tasks[t].at = "done" <=> tasks[t].response # <<>>
    /\ (tasks[t].response # <<>> /\ tasks[t].response[1].status = "OK") =>
          /\ Len(tasks[t].calls) = 3
          /\ \A k \in 1..3 :
                /\ tasks[t].calls[k].op = C34_CallsOfSuccess[k]
                /\ tasks[t].calls[k].result.ok
          /\ \E i \in DOMAIN log :
                log[i] = [client |-> tasks[t].client, result |-> [ok |-> TRUE]]
          /\ \E i, j \in DOMAIN net :
                /\ i < j
                /\ net[i].call = t /\ net[i].method = "GET"
                /\ net[j].call = t /\ net[j].method = "POST"
                /\ net[i].resp # <<>> /\ net[j].resp # <<>>
    /\ \A k \in DOMAIN tasks[t].calls :
          ~tasks[t].calls[k].result.ok =>
              /\ k = Len(tasks[t].calls)
              /\ tasks[t].at = "done"
              /\ tasks[t].response[1].status # "OK"

\* C34: every send request ends with one outcome, which never changes; a
\* success means that check_and_increment admitted this request, then
\* get_session_info succeeded, then send_sms succeeded; a request that was
\* rejected or whose device call failed ends with an error.
C34_OneOutcome ==
    /\ [](\A t \in SendTasks : C34_Outcome(t))
    /\ [][\A t \in SendTasks :
             tasks[t].response # <<>> => tasks'[t] = tasks[t]]_vars

\* Witness: one send request ended with success after its three calls, and
\* another, admitted and with a session, ended with an error because the
\* device refused the message.
C34_Witness ==
    \E t, u \in SendTasks :
        /\ tasks[t].at = "done"
        /\ tasks[t].response[1].status = "OK"
        /\ Len(tasks[t].calls) = 3
        /\ tasks[u].at = "done"
        /\ Len(tasks[u].calls) = 3
        /\ ~tasks[u].calls[3].result.ok
        /\ tasks[u].response[1].status = "BAD_REQUEST"

(***************************************************************************)
(* The rate limiter with the time of every call kept in the history.       *)
(***************************************************************************)

\* Mutant: the call tests the global windows as they stand, without the
\* roll of line 142.
CheckAndIncrementTimedNoRoll(c) ==
    /\ Len(log) < MaxCalls
    /\ state' = CheckAndIncrementRolled(state, c, GlobalVerdict(state)).state
    /\ log' = Append(log,
                  [client |-> c, at |-> now,
                   result |-> CheckAndIncrementRolled(state, c,
                                  GlobalVerdict(state)).result])
    /\ UNCHANGED <<hourly_limit, daily_limit, client_limits, mutex, now,
                   ticks, pc, client>>
    /\ UNCHANGED modemVars
    /\ UNCHANGED serverVars

\* check_and_increment(c), lines 140-199, from lock to return; the history
\* keeps the time of the call with its result.
CheckAndIncrementTimed(c) ==
    /\ Len(log) < MaxCalls
    /\ state' = CheckAndIncrement(c).state
    /\ log' = Append(log, [client |-> c, at |-> now,
                           result |-> CheckAndIncrement(c).result])
    /\ UNCHANGED <<hourly_limit, daily_limit, client_limits, mutex, now,
                   ticks, pc, client>>
    /\ UNCHANGED modemVars
    /\ UNCHANGED serverVars

NextRecovery ==
    \/ \E c \in LedgerArgs : CheckAndIncrementTimed(c)
    \/ GetStatus
    \/ \E d \in TickSteps : Tick(d)

SpecRecovery == InitLedger /\ [][NextRecovery]_vars

\* The ceilings that a call for caller c is tested against are all above 0.
C35_CeilingsAboveZero(c) ==
    /\ hourly_limit > 0
    /\ daily_limit > 0
    /\ (c # <<>> /\ c[1] \in DOMAIN client_limits) =>
          /\ client_limits[c[1]][1] > 0
          /\ client_limits[c[1]][2] > 0

\* Every admission so far is at least a day old.
C35_DayWithoutAdmission ==
    \A i \in DOMAIN log : log[i].result.ok => now - log[i].at >= 86400

\* C35: the quota is never exhausted for good: a call of
\* check_and_increment made when no admission has happened for 86400 s or
\* more is admitted, for every caller whose ceilings and the global ones
\* are above 0, whatever was admitted, rejected or rolled before.
C35_ExhaustionEnds ==
    [][(Len(log') = Len(log) + 1
          /\ C35_DayWithoutAdmission
          /\ C35_CeilingsAboveZero(log'[Len(log')].client))
       => log'[Len(log')].result.ok]_vars

\* Witness: a configured caller used up its hourly ceiling of 1 and was
\* rejected; a day after its admission it is admitted again.
C35_Witness ==
    /\ Len(log) = 3
    /\ client_limits[TestClient] = <<1, MaxLimit>>
    /\ log[1] = [client |-> Some(TestClient), at |-> 0, result |-> Ok]
    /\ log[2].client = Some(TestClient)
    /\ ~log[2].result.ok
    /\ log[3] = [client |-> Some(TestClient), at |-> 86400, result |-> Ok]
    /\ state.client_state[TestClient].daily_count = 1
    /\ state.daily_count = 1

(***************************************************************************)
(* The hour and the day.                                                   *)
(***************************************************************************)

\* C36: the global daily count is at least the global hourly count, and the
\* daily count of every caller is at least its hourly count.
C36_DayCoversHour ==
    /\ state.daily_count >= state.hourly_count
    /\ \A n \in DOMAIN state.client_state :
          state.client_state[n].daily_count >= state.client_state[n].hourly_count

\* The day of the windows e began no later than their hour.
C36_DayBeganFirst(e) == e.last_reset_day <= e.last_reset_hour

\* C36, amended: while the day of a pair of windows began no later than
\* its hour, the daily count is at least the hourly count, for the global
\* windows and for every caller's; a day that rolls inside a running hour
\* starts at 0 under an hourly count that stays.
C36_DayCoversHourBegunInIt ==
    /\ C36_DayBeganFirst(state) => state.daily_count >= state.hourly_count
    /\ \A n \in DOMAIN state.client_state :
          C36_DayBeganFirst(state.client_state[n]) =>
              state.client_state[n].daily_count
                  >= state.client_state[n].hourly_count

\* Witness: a caller was admitted, and admitted again after its hour and
\* the global hour had rolled inside the day: 1 in the hour and 2 in the
\* day, for the caller and globally.
C36_Witness ==
    /\ TestClient \in DOMAIN state.client_state
    /\ state.last_reset_day < state.last_reset_hour
    /\ state.hourly_count = 1
    /\ state.daily_count = 2
    /\ state.client_state[TestClient].last_reset_day
           < state.client_state[TestClient].last_reset_hour
    /\ state.client_state[TestClient].hourly_count = 1
    /\ state.client_state[TestClient].daily_count = 2

(***************************************************************************)
(* The callers and the gateway.                                            *)
(***************************************************************************)

\* C37: the hourly count of every configured caller is at most the global
\* hourly count, and its daily count at most the global daily count.
C37_CallerWithinGlobal ==
    \A n \in DOMAIN state.client_state :
        /\ state.client_state[n].hourly_count <= state.hourly_count
        /\ state.client_state[n].daily_count <= state.daily_count

\* C37, amended: a caller's count is at most the global count of the same
\* period while the global window of that period began no later than the
\* caller's; a global window that rolls inside a caller's running window
\* starts at 0 under a caller's count that stays.
C37_CallerWithinGlobalBegunInIt ==
    \A n \in DOMAIN state.client_state :
        /\ state.last_reset_hour <= state.client_state[n].last_reset_hour =>
              state.client_state[n].hourly_count <= state.hourly_count
        /\ state.last_reset_day <= state.client_state[n].last_reset_day =>
              state.client_state[n].daily_count <= state.daily_count

\* Witness: a message without a caller's name was admitted, and half an hour
\* later one of a configured caller, whose windows begin then, inside the
\* global ones: 1 for the caller and 2 globally.
C37_Witness ==
    /\ TestClient \in DOMAIN state.client_state
    /\ state.last_reset_hour < state.client_state[TestClient].last_reset_hour
    /\ state.last_reset_day < state.client_state[TestClient].last_reset_day
    /\ state.client_state[TestClient].hourly_count = 1
    /\ state.client_state[TestClient].daily_count = 1
    /\ state.hourly_count = 2
    /\ state.daily_count = 2

(***************************************************************************)
(* The dry run of the command line.                                        *)
(***************************************************************************)

\* C38: a send of the command line with dry-run issues no request of any
\* kind to the device, the GET of the session included.
C38_CliDryRunNoDeviceRequest ==
    (margs.prog = "cli_send" /\ margs.dry_run) =>
        \A i \in DOMAIN net : net[i].host # "modem"

(***************************************************************************)
(* The rate limiter with every ceiling a counter can be given.             *)
(***************************************************************************)

\* RateLimiter::new with ceilings over the whole range of their type.
InitWidth ==
    /\ ModemIdle
    /\ ServerIdle
    /\ hourly_limit \in 0..U32Max
    /\ daily_limit \in 0..U32Max
    /\ client_limits \in [ConfiguredNames -> (0..U32Max) \X (0..U32Max)]
    /\ state = [hourly_count |-> 0, daily_count |-> 0,
                last_reset_hour |-> 0, last_reset_day |-> 0,
                client_state |-> <<>>]
    /\ mutex = NoThread
    /\ now = 0
    /\ ticks = 0
    /\ pc = [t \in Threads |-> "idle"]
    /\ client = [t \in Threads |-> None]
    /\ log = <<>>

\* check_and_increment(c), lines 140-199, from lock to return, any number
\* of times; the history keeps the last call only.
CheckAndIncrementLast(c) ==
    /\ state' = CheckAndIncrement(c).state
    /\ log' = <<[client |-> c, result |-> CheckAndIncrement(c).result]>>
    /\ UNCHANGED <<hourly_limit, daily_limit, client_limits, mutex, now,
                   ticks, pc, client>>
    /\ UNCHANGED modemVars
    /\ UNCHANGED serverVars

NextWidth ==
    \/ \E c \in ClientArgs : CheckAndIncrementLast(c)
    \/ \E d \in TickSteps : Tick(d)

SpecWidth == InitWidth /\ [][NextWidth]_vars

\* The window (count, start) of length len under ceiling lim is counted up
\* to count2 without overflow: its count after the roll is below the
\* ceiling, the ceiling is a value of the counter's type, and count2 is one
\* more, as an integer.
C39_CountedUp(count, start, len, lim, count2) ==
    /\ C24_Rolled(count, start, len) < lim
    /\ lim <= U32Max
    /\ count2 = C24_Rolled(count, start, len) + 1
    /\ count2 <= U32Max

\* The entry of caller n is counted up without overflow; a new entry from 0.
C39_CallerCountedUp(n) ==
    IF n \in DOMAIN state.client_state
    THEN /\ C39_CountedUp(state.client_state[n].hourly_count,
                          state.client_state[n].last_reset_hour, 3600,
                          client_limits[n][1],
                          state'.client_state[n].hourly_count)
         /\ C39_CountedUp(state.client_state[n].daily_count,
                          state.client_state[n].last_reset_day, 86400,
                          client_limits[n][2],
                          state'.client_state[n].daily_count)
    ELSE /\ client_limits[n][1] > 0
         /\ client_limits[n][2] > 0
         /\ state'.client_state[n].hourly_count = 1
         /\ state'.client_state[n].daily_count = 1

\* An admission: every count it raises is raised from below its ceiling.
C39_Admission ==
    (now' = now /\ state' # state /\ log'[1].result.ok) =>
        /\ C39_CountedUp(state.hourly_count, state.last_reset_hour, 3600,
                         hourly_limit, state'.hourly_count)
        /\ C39_CountedUp(state.daily_count, state.last_reset_day, 86400,
                         daily_limit, state'.daily_count)
        /\ \A n \in DOMAIN client_limits :
              log'[1].client = <<n>> => C39_CallerCountedUp(n)

\* A call that was not admitted raises no count.
C39_Rejection ==
    (now' = now /\ state' # state /\ ~log'[1].result.ok) =>
        /\ state'.hourly_count \in {0, state.hourly_count}
        /\ state'.daily_count \in {0, state.daily_count}
        /\ \A n \in DOMAIN state.client_state :
              /\ state'.client_state[n].hourly_count
                     \in {0, state.client_state[n].hourly_count}
              /\ state'.client_state[n].daily_count
                     \in {0, state.client_state[n].daily_count}

\* C39: no increment of check_and_increment overflows the counter: a count
\* is raised only in an admission, from a value strictly below its ceiling,
\* for every ceiling from 0 to the largest value of the counter's type; a
\* ceiling of 0 admits nothing.
C39_NoOverflow == [][C39_Admission /\ C39_Rejection]_vars

\* Witness: under the largest hourly ceiling there is the global hourly
\* count has reached it, the last step to it an admission, and so has the
\* caller's count under its own.
C39_Witness ==
    /\ hourly_limit = U32Max
    /\ state.hourly_count = U32Max
    /\ client_limits["test_client"][2] = U32Max
    /\ "test_client" \in DOMAIN state.client_state
    /\ state.client_state["test_client"].daily_count = U32Max
    /\ log = <<[client |-> <<"test_client">>, result |-> [ok |-> TRUE]]>>

====
